---- MODULE Spec2Model ----
(***************************************************************************)
(* CineBooker: seat selection and booking creation (SeatSelection.tsx),    *)
(* the check-in console (CheckInInterface in App.tsx) and the session      *)
(* bootstrap (App.fetchUserDetails), over the record collections of the    *)
(* data access gateway.  One action is the code of a handler between two   *)
(* awaits: the gateway call that the await waits for, served atomically,   *)
(* followed by the continuation up to the next await.                      *)
(***************************************************************************)
EXTENDS Integers, Sequences, FiniteSets, TLC

\* ------------------------------------------------------------------ bounds
MaxClock == 1        \* Date.now() takes the values 0..MaxClock
MaxPending == 1      \* handleProceedToPayment calls in flight per view
MaxClicks == 2       \* seat clicks followed from a prepared selection
MaxScans == 2        \* handleQRScan calls in flight, over all consoles
MaxBoots == 2        \* fetchUserDetails calls in flight
MaxDecisions == 2    \* approve/reject clicks followed
MaxDashCalls == 2    \* gateway calls of the platform dashboards in flight
MaxEdits == 2        \* form edits and Save clicks followed in UserProfile
MaxRows == 3         \* rows of the layouts getSeatType is applied to
MaxMovieCalls == 3   \* gateway calls of MovieDetails in flight
MaxDateClicks == 2   \* clicks on date buttons followed

\* ------------------------------------------------------------------ basics
Views == {"v1", "v2"}
Users == {"u1", "u2"}

Null == <<>>
Some(x) == <<x>>
IsNull(o) == o = <<>>

\* `${row}-${seat}` and seatId.split('-').map(Number)[0]
SeatId(row, seat) == <<row, seat>>
RowOf(seatId) == seatId[1]

RECURSIVE SeqSum(_)
SeqSum(s) == IF s = <<>> THEN 0 ELSE Head(s) + SeqSum(Tail(s))

RECURSIVE Flatten(_)
Flatten(ss) == IF ss = <<>> THEN <<>> ELSE Head(ss) \o Flatten(Tail(ss))

Range(s) == {s[i] : i \in 1..Len(s)}
Includes(s, x) == \E i \in 1..Len(s) : s[i] = x

\* A text column holding JSON: kind "json" is a well-formed array, "garbage"
\* a non-empty string that is no JSON, "empty" the empty string, "null" NULL.
JSONstringify(seats) == [kind |-> "json", val |-> seats]
GarbageText == [kind |-> "garbage", val |-> <<>>]
EmptyText == [kind |-> "empty", val |-> <<>>]
NullText == [kind |-> "null", val |-> <<>>]
Truthy(text) == text.kind \in {"json", "garbage"}
ParseThrows(text) == text.kind \in {"garbage", "empty"}
JSONparse(text) == text.val

\* ------------------------------------------------------------------ catalog
Layout3 == [rows |-> 3, seatsPerRow |-> 1,
            premium |-> <<1>>, gold |-> <<2>>, regular |-> <<3>>]
Layout2 == [rows |-> 1, seatsPerRow |-> 2,
            premium |-> <<1>>, gold |-> <<1>>, regular |-> <<>>]
Layout12 == [rows |-> 1, seatsPerRow |-> 12,
             premium |-> <<>>, gold |-> <<>>, regular |-> <<1>>]

ScreensTable ==
  << [id |-> "sc1", seat_layout |-> Some(Layout3)],
     [id |-> "sc2", seat_layout |-> Null],
     [id |-> "sc3", seat_layout |-> Some(Layout2)],
     [id |-> "sc4", seat_layout |-> Some(Layout12)] >>
MoviesTable == << [id |-> "m1"] >>
TheatersTable == << [id |-> "t1"] >>
ShowtimesTable ==
  << [id |-> "st1", movie_id |-> "m1", theater_id |-> "t1", screen_id |-> "sc1",
      price_regular |-> 1, price_gold |-> 4, price_platinum |-> 16],
     [id |-> "st2", movie_id |-> "m1", theater_id |-> "t1", screen_id |-> "sc1",
      price_regular |-> 2, price_gold |-> 3, price_platinum |-> 5],
     [id |-> "st3", movie_id |-> "m1", theater_id |-> "t1", screen_id |-> "sc2",
      price_regular |-> 1, price_gold |-> 1, price_platinum |-> 1],
     [id |-> "st4", movie_id |-> "m1", theater_id |-> "t1", screen_id |-> "sc3",
      price_regular |-> 1, price_gold |-> 2, price_platinum |-> 3],
     [id |-> "st5", movie_id |-> "m1", theater_id |-> "t1", screen_id |-> "sc4",
      price_regular |-> 1, price_gold |-> 2, price_platinum |-> 3] >>
RouteParams == {"st1", "st2", "st3", "st4", "st9"}

\* list({ where: { id }, limit: 1 })
ListById(table, id) ==
  LET hit(r) == r.id = id
      found == SelectSeq(table, hit)
  IN IF found = <<>> THEN <<>> ELSE <<Head(found)>>

VARIABLES
  bookings,       \* the bookings collection, in creation order
  now,            \* Date.now()
  principal,      \* the identity signed in in each browser (blink.auth.me())
  route,          \* per view: "home", "book", "confirmation"
  showtimeId,     \* per view: the :showtimeId route parameter
  pc,             \* per view: where fetchShowtimeDetails stands
  showtime, movie, theater, screen, seatLayout,
  selectedSeats, occupiedSeats, loading,
  toast,          \* per view: title of the last toast shown
  console,        \* per view: the last console.error message
  pending,        \* per view: the handleProceedToPayment calls in flight
  clickBudget,    \* seat clicks still followed; -1 when they are not counted
  users,          \* the users collection
  qrCode,         \* per check-in console: the text of the code input
  checkInResult,  \* per check-in console: Null or the result shown
  checkInLoading, \* per check-in console: the loading flag of CheckInInterface
  scan,           \* per slot: a handleQRScan call in flight, or a free slot
  successes,      \* the booking ids of the attempts that ended with success
  lastEnded,      \* the handleQRScan call that ended last, as its slot held it
  revision,       \* which of the two App revisions under src/ runs
  authUser,       \* the identity provider's principal, Null when signed out
  user,           \* App: the session user, Null or a users record
  appLoading,     \* App: the loading flag
  appConsole,     \* App: the last console.error message
  boots,          \* the fetchUserDetails calls in flight
  location,       \* the path in the address bar of the browser App runs in
  theaterRows,    \* the theaters collection, with each theater's approval status
  pendingTheaters,\* per platform dashboard: the pendingTheaters state
  dashOpen,       \* per platform dashboard: whether it is mounted
  dashCalls,      \* the gateway calls of the platform dashboards in flight
  dashConsole,    \* per platform dashboard: the last console.error message
  dashLast,       \* the dashboard call answered last, and whether it succeeded
  decisionBudget, \* approve/reject clicks still followed
  formData,       \* UserProfile: the name and phone of the form
  updating,       \* UserProfile: the updating flag
  profileCalls,   \* the users.update calls of UserProfile in flight
  profileToast,   \* UserProfile: title of the last toast shown
  profileBudget,  \* form edits and Save clicks still followed
  profileOpen,    \* UserProfile: Null, or the user it was mounted with
  probeLayout, probeRow, probeOut, \* a layout, a row, and getSeatType of them
  movieOpen,      \* MovieDetails: whether it is mounted
  selectedDate,   \* MovieDetails: the date selected
  movieShowtimes, \* MovieDetails: the showtimes state
  movieLoading,   \* MovieDetails: the loading flag
  movieSet,       \* MovieDetails: whether the movie state is set
  movieConsole,   \* MovieDetails: the last console.error message
  movieCalls,     \* the fetchMovieDetails and fetchShowtimes calls in flight
  dateBudget      \* clicks on date buttons still followed

seatVars == <<route, showtimeId, pc, showtime, movie, theater, screen,
              seatLayout, selectedSeats, occupiedSeats, loading, toast, console,
              pending>>
checkInVars == <<qrCode, checkInResult, checkInLoading, scan, successes, lastEnded>>
sessionVars == <<revision, authUser, user, appLoading, appConsole, boots>>
platformVars == <<theaterRows, pendingTheaters, dashOpen, dashCalls, dashConsole,
                  dashLast, decisionBudget>>
profileVars == <<formData, updating, profileCalls, profileToast, profileBudget,
                 profileOpen>>
probeVars == <<probeLayout, probeRow, probeOut>>
movieVars == <<movieOpen, selectedDate, movieShowtimes, movieLoading, movieSet,
               movieConsole, movieCalls, dateBudget>>
restVars == <<location, platformVars, profileVars, probeVars, movieVars>>
vars == <<bookings, now, principal, seatVars, clickBudget, users, checkInVars,
          sessionVars, restVars>>

\* ------------------------------------------------------------------ gateway
\* the lookup without its booking_status condition
ListShowtimeBookings(table, sid) ==
  LET hit(b) == b.showtime_id = sid
  IN SelectSeq(table, hit)

\* bookings.list({ where: { showtime_id, booking_status: 'confirmed' } })
ListConfirmedBookings(table, sid) ==
  LET hit(b) == b.showtime_id = sid /\ b.booking_status = "confirmed"
  IN SelectSeq(table, hit)

\* bookings.create(record): the record as stored
CreateBooking(table, rec) == Append(table, rec)

\* A booking that exists before any view is opened; its id and code carry a
\* negative tag where those of a view carry Date.now().
SeedBooking(tag, sid, status, seatsText, checkedIn) ==
  [id |-> <<"booking", tag>>, user_id |-> "u2", showtime_id |-> sid,
   seats |-> seatsText, total_amount |-> 0, booking_status |-> status,
   payment_status |-> "pending", qr_code |-> <<"QR", tag, "u2">>,
   checked_in |-> checkedIn, check_in_time |-> Null]

SeedSeats == JSONstringify(<<SeatId(1, 1)>>)

SeatSeeds ==
  {<<>>} \cup
  {<<SeedBooking(-1, sid, st, SeedSeats, FALSE)>> :
      sid \in {"st1", "st2"}, st \in {"confirmed", "cancelled", "refunded"}} \cup
  {<<SeedBooking(-1, "st1", "confirmed", t, FALSE)>> : t \in {GarbageText, NullText}} \cup
  {<<SeedBooking(-1, "st1", "confirmed", SeedSeats, FALSE),
     SeedBooking(-2, "st1", st, JSONstringify(<<SeatId(2, 1)>>), FALSE),
     SeedBooking(-3, "st2", "confirmed", JSONstringify(<<SeatId(3, 1)>>), FALSE)>> :
      st \in {"confirmed", "cancelled"}}

\* ------------------------------------------------------------------ SeatSelection
MaxSeats == 10

\* fetchOccupiedSeats, the forEach over the bookings returned
OccupiedOf(found) ==
  LET parsed == [i \in 1..Len(found) |->
                   IF Truthy(found[i].seats) THEN JSONparse(found[i].seats) ELSE <<>>]
  IN Flatten(parsed)
OccupiedThrows(found) ==
  \E i \in 1..Len(found) : Truthy(found[i].seats) /\ ParseThrows(found[i].seats)

\* the gold list tested before the premium list
getSeatTypeGoldFirst(layout, row) ==
  IF IsNull(layout) THEN "regular"
  ELSE IF Includes(layout[1].gold, row) THEN "gold"
  ELSE IF Includes(layout[1].premium, row) THEN "premium"
  ELSE "regular"

getSeatType(layout, row) ==
  IF IsNull(layout) THEN "regular"
  ELSE IF Includes(layout[1].premium, row) THEN "premium"
  ELSE IF Includes(layout[1].gold, row) THEN "gold"
  ELSE "regular"

\* premium priced as gold
getSeatPriceGoldForPremium(st, seatType) ==
  IF IsNull(st) THEN 0
  ELSE CASE seatType = "premium" -> st[1].price_gold
         [] seatType = "gold" -> st[1].price_gold
         [] OTHER -> st[1].price_regular

getSeatPrice(st, seatType) ==
  IF IsNull(st) THEN 0
  ELSE CASE seatType = "premium" -> st[1].price_platinum
         [] seatType = "gold" -> st[1].price_gold
         [] seatType = "regular" -> st[1].price_regular
         [] OTHER -> st[1].price_regular

calculateTotal(st, layout, selected) ==
  SeqSum([i \in 1..Len(selected) |->
            getSeatPrice(st, getSeatType(layout, RowOf(selected[i])))])

\* handleSeatClick without its test of the occupied seats
ClickSelectionNoOccupiedTest(occupied, selected, seatId) ==
  IF Includes(selected, seatId)
  THEN LET keep(id) == id # seatId IN SelectSeq(selected, keep)
  ELSE IF Len(selected) < MaxSeats THEN Append(selected, seatId)
  ELSE selected

\* the limit tested with <= in place of <
ClickSelectionOffByOne(occupied, selected, seatId) ==
  IF Includes(occupied, seatId) THEN selected
  ELSE IF Includes(selected, seatId)
       THEN LET keep(id) == id # seatId IN SelectSeq(selected, keep)
       ELSE IF Len(selected) <= MaxSeats THEN Append(selected, seatId)
       ELSE selected

\* handleSeatClick: the selection after a click on seatId
ClickSelection(occupied, selected, seatId) ==
  IF Includes(occupied, seatId) THEN selected
  ELSE IF Includes(selected, seatId)
       THEN LET keep(id) == id # seatId IN SelectSeq(selected, keep)
       ELSE IF Len(selected) < MaxSeats THEN Append(selected, seatId)
       ELSE selected
ClickToast(occupied, selected, seatId, old) ==
  IF ~Includes(occupied, seatId) /\ ~Includes(selected, seatId)
     /\ ~(Len(selected) < MaxSeats)
  THEN "Limit Reached" ELSE old

\* the seat buttons rendered from the layout
SeatGrid(layout) ==
  {SeatId(r, s) : r \in 1..layout.rows, s \in 1..layout.seatsPerRow}

\* every seat some screen of the catalog has
SeatIds ==
  UNION {SeatGrid(ScreensTable[i].seat_layout[1]) :
           i \in {j \in 1..Len(ScreensTable) : ~IsNull(ScreensTable[j].seat_layout)}}

\* the render guards: the seat map is on screen
Rendered(v) ==
  /\ route[v] = "book"
  /\ ~loading[v]
  /\ ~IsNull(showtime[v]) /\ ~IsNull(movie[v]) /\ ~IsNull(theater[v])
  /\ ~IsNull(screen[v]) /\ ~IsNull(seatLayout[v])

InitSeat ==
  /\ showtimeId = [v \in Views |-> "none"]
  /\ pc = [v \in Views |-> "idle"]
  /\ showtime = [v \in Views |-> Null]
  /\ movie = [v \in Views |-> Null]
  /\ theater = [v \in Views |-> Null]
  /\ screen = [v \in Views |-> Null]
  /\ seatLayout = [v \in Views |-> Null]
  /\ selectedSeats = [v \in Views |-> <<>>]
  /\ occupiedSeats = [v \in Views |-> <<>>]
  /\ loading = [v \in Views |-> TRUE]
  /\ toast = [v \in Views |-> "none"]
  /\ console = [v \in Views |-> "none"]
  /\ pending = [v \in Views |-> <<>>]
  /\ clickBudget = -1

\* navigation to /book/:showtimeId mounts the component; useEffect starts the load
OpenSeatSelection(v, sid) ==
  /\ route[v] = "home"
  /\ route' = [route EXCEPT ![v] = "book"]
  /\ showtimeId' = [showtimeId EXCEPT ![v] = sid]
  /\ pc' = [pc EXCEPT ![v] = "showtime"]
  /\ UNCHANGED <<showtime, movie, theater, screen, seatLayout, selectedSeats,
                 occupiedSeats, loading, toast, console, pending, bookings, now,
                 principal, clickBudget, users,
                 checkInVars, sessionVars,
                 restVars>>

\* fetchShowtimeDetails: showtimes.list and what follows it
FetchShowtime(v, ok) ==
  /\ pc[v] = "showtime"
  /\ LET showtimes == ListById(ShowtimesTable, showtimeId[v])
     IN IF ~ok
        THEN /\ toast' = [toast EXCEPT ![v] = "Error"]
             /\ console' = [console EXCEPT ![v] = "Error fetching showtime details:"]
             /\ loading' = [loading EXCEPT ![v] = FALSE]
             /\ pc' = [pc EXCEPT ![v] = "done"]
             /\ UNCHANGED <<showtime, route>>
        ELSE IF Len(showtimes) = 0
        THEN /\ toast' = [toast EXCEPT ![v] = "Error"]
             /\ route' = [route EXCEPT ![v] = "left"]
             /\ loading' = [loading EXCEPT ![v] = FALSE]
             /\ pc' = [pc EXCEPT ![v] = "done"]
             /\ UNCHANGED <<showtime, console>>
        ELSE /\ showtime' = [showtime EXCEPT ![v] = Some(showtimes[1])]
             /\ pc' = [pc EXCEPT ![v] = "details"]
             /\ UNCHANGED <<toast, console, route, loading>>
  /\ UNCHANGED <<showtimeId, movie, theater, screen, seatLayout, selectedSeats,
                 occupiedSeats, pending, bookings, now, principal, clickBudget, users,
                 checkInVars, sessionVars,
                 restVars>>

\* fetchShowtimeDetails: Promise.all of movies, theaters, screens
FetchDetails(v, ok) ==
  /\ pc[v] = "details"
  /\ LET st == showtime[v][1]
         movies == ListById(MoviesTable, st.movie_id)
         theaters == ListById(TheatersTable, st.theater_id)
         screens == ListById(ScreensTable, st.screen_id)
     IN IF ~ok
        THEN /\ toast' = [toast EXCEPT ![v] = "Error"]
             /\ console' = [console EXCEPT ![v] = "Error fetching showtime details:"]
             /\ loading' = [loading EXCEPT ![v] = FALSE]
             /\ pc' = [pc EXCEPT ![v] = "done"]
             /\ UNCHANGED <<movie, theater, screen, seatLayout>>
        ELSE /\ movie' = [movie EXCEPT ![v] =
                            IF Len(movies) > 0 THEN Some(movies[1]) ELSE @]
             /\ theater' = [theater EXCEPT ![v] =
                            IF Len(theaters) > 0 THEN Some(theaters[1]) ELSE @]
             /\ screen' = [screen EXCEPT ![v] =
                            IF Len(screens) > 0 THEN Some(screens[1]) ELSE @]
             /\ seatLayout' = [seatLayout EXCEPT ![v] =
                            IF Len(screens) > 0 /\ ~IsNull(screens[1].seat_layout)
                            THEN screens[1].seat_layout ELSE @]
             /\ pc' = [pc EXCEPT ![v] = "occupied"]
             /\ UNCHANGED <<toast, console, loading>>
  /\ UNCHANGED <<route, showtimeId, showtime, selectedSeats, occupiedSeats,
                 pending, bookings, now, principal, clickBudget, users,
                 checkInVars, sessionVars,
                 restVars>>

\* fetchOccupiedSeats, then the finally of fetchShowtimeDetails
FetchOccupied(v, ok) ==
  /\ pc[v] = "occupied"
  /\ LET found == ListConfirmedBookings(bookings, showtimeId[v])
     IN IF ok /\ ~OccupiedThrows(found)
        THEN /\ occupiedSeats' = [occupiedSeats EXCEPT ![v] = OccupiedOf(found)]
             /\ UNCHANGED console
        ELSE /\ console' = [console EXCEPT ![v] = "Error fetching occupied seats:"]
             /\ UNCHANGED occupiedSeats
  /\ loading' = [loading EXCEPT ![v] = FALSE]
  /\ pc' = [pc EXCEPT ![v] = "done"]
  /\ UNCHANGED <<route, showtimeId, showtime, movie, theater, screen, seatLayout,
                 selectedSeats, toast, pending, bookings, now, principal, clickBudget, users,
                 checkInVars, sessionVars,
                 restVars>>

handleSeatClick(v, seatId) ==
  /\ Rendered(v)
  /\ seatId \in SeatGrid(seatLayout[v][1])
  /\ clickBudget # 0
  /\ clickBudget' = IF clickBudget > 0 THEN clickBudget - 1 ELSE clickBudget
  /\ selectedSeats' = [selectedSeats EXCEPT ![v] =
                         ClickSelection(occupiedSeats[v], @, seatId)]
  /\ toast' = [toast EXCEPT ![v] =
                 ClickToast(occupiedSeats[v], selectedSeats[v], seatId, @)]
  /\ UNCHANGED <<route, showtimeId, pc, showtime, movie, theater, screen, seatLayout,
                 occupiedSeats, loading, console, pending, bookings, now, principal,
                 users, checkInVars, sessionVars,
                 restVars>>

\* a record written as awaiting confirmation and already paid
NewBookingPaid(uid, sid, seats, total, t) ==
  [id |-> <<"booking", t>>, user_id |-> uid, showtime_id |-> sid,
   seats |-> JSONstringify(seats), total_amount |-> total,
   booking_status |-> "pending", payment_status |-> "paid",
   qr_code |-> <<"QR", t, uid>>, checked_in |-> FALSE, check_in_time |-> Null]

\* the record handleProceedToPayment passes to bookings.create
NewBooking(uid, sid, seats, total, t) ==
  [id |-> <<"booking", t>>, user_id |-> uid, showtime_id |-> sid,
   seats |-> JSONstringify(seats), total_amount |-> total,
   booking_status |-> "confirmed", payment_status |-> "pending",
   qr_code |-> <<"QR", t, uid>>, checked_in |-> FALSE, check_in_time |-> Null]

\* handleProceedToPayment without its empty-selection test
SubmitNeverBlocked(selected) == FALSE

\* the empty-selection test that opens handleProceedToPayment
SubmitBlocked(selected) == Len(selected) = 0

\* handleProceedToPayment up to the await of auth.me(); the closure keeps the
\* selectedSeats of the render the click came from
handleProceedToPayment(v) ==
  /\ Rendered(v)
  /\ Len(pending[v]) < MaxPending
  /\ IF SubmitBlocked(selectedSeats[v])
     THEN /\ toast' = [toast EXCEPT ![v] = "No Seats Selected"]
          /\ UNCHANGED pending
     ELSE /\ pending' = [pending EXCEPT ![v] =
                 Append(@, [stage |-> "me", seats |-> selectedSeats[v], rec |-> Null])]
          /\ UNCHANGED toast
  /\ UNCHANGED <<route, showtimeId, pc, showtime, movie, theater, screen, seatLayout,
                 selectedSeats, occupiedSeats, loading, console, bookings, now,
                 principal, clickBudget, users,
                 checkInVars, sessionVars,
                 restVars>>

RemoveAt(s, i) == SubSeq(s, 1, i - 1) \o SubSeq(s, i + 1, Len(s))

\* auth.me() answers; calculateTotal and the create request follow without an await
ProceedAuthMe(v, i, ok) ==
  /\ i \in 1..Len(pending[v])
  /\ pending[v][i].stage = "me"
  /\ IF ok
     THEN /\ pending' = [pending EXCEPT ![v][i] =
                 [stage |-> "create", seats |-> @.seats,
                  rec |-> Some(NewBooking(principal[v], showtimeId[v], @.seats,
                                 calculateTotal(showtime[v], seatLayout[v], @.seats),
                                 now))]]
          /\ UNCHANGED <<toast, console>>
     ELSE /\ pending' = [pending EXCEPT ![v] = RemoveAt(@, i)]
          /\ toast' = [toast EXCEPT ![v] = "Booking Failed"]
          /\ console' = [console EXCEPT ![v] = "Error creating booking:"]
  /\ UNCHANGED <<route, showtimeId, pc, showtime, movie, theater, screen, seatLayout,
                 selectedSeats, occupiedSeats, loading, bookings, now, principal, clickBudget, users,
                 checkInVars, sessionVars,
                 restVars>>

\* a failure path that also empties the selection
ProceedCreateClearing(v, i, ok) ==
  /\ i \in 1..Len(pending[v])
  /\ pending[v][i].stage = "create"
  /\ pending' = [pending EXCEPT ![v] = RemoveAt(@, i)]
  /\ IF ok
     THEN /\ bookings' = CreateBooking(bookings, pending[v][i].rec[1])
          /\ toast' = [toast EXCEPT ![v] = "Booking Created"]
          /\ route' = [route EXCEPT ![v] = "confirmation"]
          /\ UNCHANGED <<console, selectedSeats>>
     ELSE /\ toast' = [toast EXCEPT ![v] = "Booking Failed"]
          /\ console' = [console EXCEPT ![v] = "Error creating booking:"]
          /\ selectedSeats' = [selectedSeats EXCEPT ![v] = <<>>]
          /\ UNCHANGED <<bookings, route>>
  /\ UNCHANGED <<showtimeId, pc, showtime, movie, theater, screen, seatLayout,
                 occupiedSeats, loading, now, principal, clickBudget, users,
                 checkInVars, sessionVars,
                 restVars>>

\* bookings.create answers; toast and navigate(`/booking/${booking.id}`)
ProceedCreate(v, i, ok) ==
  /\ i \in 1..Len(pending[v])
  /\ pending[v][i].stage = "create"
  /\ pending' = [pending EXCEPT ![v] = RemoveAt(@, i)]
  /\ IF ok
     THEN /\ bookings' = CreateBooking(bookings, pending[v][i].rec[1])
          /\ toast' = [toast EXCEPT ![v] = "Booking Created"]
          /\ route' = [route EXCEPT ![v] = "confirmation"]
          /\ UNCHANGED console
     ELSE /\ toast' = [toast EXCEPT ![v] = "Booking Failed"]
          /\ console' = [console EXCEPT ![v] = "Error creating booking:"]
          /\ UNCHANGED <<bookings, route>>
  /\ UNCHANGED <<showtimeId, pc, showtime, movie, theater, screen, seatLayout,
                 selectedSeats, occupiedSeats, loading, now, principal, clickBudget, users,
                 checkInVars, sessionVars,
                 restVars>>

\* the clock behind Date.now()
Tick ==
  /\ now < MaxClock
  /\ now' = now + 1
  /\ UNCHANGED <<bookings, principal, seatVars, clickBudget, users, checkInVars,
                 sessionVars,
                 restVars>>

\* ------------------------------------------------------------------ CheckInInterface
Consoles == {"k1", "k2"}
Slots == 1..MaxScans

UsersSeed == << [id |-> "u2", email |-> <<"bo", "example.org">>, name |-> "Bo",
                 role |-> "customer"] >>

\* the text of the code input: a code, or nothing, with or without blanks around
Typed(code, padded) == [core |-> code, padded |-> padded]
BlankCode == <<>>
trim(text) == Typed(text.core, FALSE)
IsEmptyText(text) == text.core = BlankCode /\ ~text.padded

\* Number(booking.checked_in)
NumberOf(flag) == IF flag THEN 1 ELSE 0

NotFoundMessage == "Invalid QR code. Booking not found."
AlreadyUsedMessage == "This ticket has already been used for check-in."
NotConfirmedMessage == "This booking is not confirmed."
ShowtimeNotFoundMessage == "Showtime not found."
SuccessMessage == "Check-in successful!"
TryAgainMessage == "An error occurred during check-in. Please try again."

Failure(message) == Some([success |-> FALSE, message |-> message, booking |-> Null])
Success(b, st, names) ==
  Some([success |-> TRUE, message |-> SuccessMessage,
        booking |-> Some([id |-> b.id, show |-> st.id, seats |-> JSONparse(b.seats),
                          user_name |-> names])])

\* the lookup without its qr_code condition
ListByCodeNoWhere(table, code) ==
  IF table = <<>> THEN <<>> ELSE <<Head(table)>>

\* bookings.list({ where: { qr_code }, limit: 1 })
ListByCode(table, code) ==
  LET hit(b) == b.qr_code = code
      found == SelectSeq(table, hit)
  IN IF found = <<>> THEN <<>> ELSE <<Head(found)>>

\* an update that toggles the flag
CheckInPatchToggling(b, t) ==
  [b EXCEPT !.checked_in = ~b.checked_in, !.check_in_time = Some(t)]

\* bookings.update(id, { checked_in: true, check_in_time })
CheckInPatch(b, t) == [b EXCEPT !.checked_in = TRUE, !.check_in_time = Some(t)]
UpdateBooking(table, id, t) ==
  [i \in 1..Len(table) |-> IF table[i].id = id THEN CheckInPatch(table[i], t) ELSE table[i]]

\* handleQRScan with its two tests in the other order
LookupOutcomeStatusFirst(b) ==
  IF b.booking_status # "confirmed" THEN "unconfirmed"
  ELSE IF NumberOf(b.checked_in) > 0 THEN "used"
  ELSE "proceed"

\* handleQRScan without the test of the checked-in flag
LookupOutcomeNoUsedTest(b) ==
  IF b.booking_status # "confirmed" THEN "unconfirmed" ELSE "proceed"

\* handleQRScan without the test of the booking status
LookupOutcomeNoStatusTest(b) ==
  IF NumberOf(b.checked_in) > 0 THEN "used" ELSE "proceed"

\* what handleQRScan does with the booking found: the test of the checked-in
\* flag comes before the test of the status
LookupOutcome(b) ==
  IF NumberOf(b.checked_in) > 0 THEN "used"
  ELSE IF b.booking_status # "confirmed" THEN "unconfirmed"
  ELSE "proceed"

FreeScan ==
  [pc |-> "free", console |-> "none", code |-> BlankCode, booking |-> Null,
   showtime |-> Null, user_name |-> "none", fresh |-> FALSE, late |-> FALSE]

InFlight(s) == scan[s].pc # "free"
LowestFree == CHOOSE s \in Slots : ~InFlight(s) /\ \A r \in Slots : r < s => InFlight(r)

InitCheckIn ==
  /\ qrCode = [k \in Consoles |-> Typed(BlankCode, FALSE)]
  /\ checkInResult = [k \in Consoles |-> Null]
  /\ checkInLoading = [k \in Consoles |-> FALSE]
  /\ scan = [s \in Slots |-> FreeScan]
  /\ successes = <<>>
  /\ lastEnded = FreeScan

\* onChange of the code input
SetQrCode(k, text) ==
  /\ qrCode' = [qrCode EXCEPT ![k] = text]
  /\ UNCHANGED <<checkInResult, checkInLoading, scan, successes, lastEnded, bookings,
                 now, principal, seatVars, clickBudget, users, sessionVars,
                 restVars>>

\* handleQRScan up to the await of the booking lookup.  The scan remembers
\* whether the booking of its code was confirmed and not checked in when it
\* started and no other scan of the code has been in flight with it (fresh),
\* or whether the booking was already checked in when it started (late).
handleQRScan(k) ==
  LET code == trim(qrCode[k]).core
      rows == ListByCode(bookings, code)
  IN /\ \E s \in Slots : ~InFlight(s)
     /\ IF IsEmptyText(trim(qrCode[k]))
        THEN UNCHANGED <<checkInLoading, scan>>
        ELSE /\ checkInLoading' = [checkInLoading EXCEPT ![k] = TRUE]
             /\ scan' = [s \in Slots |->
                  IF s = LowestFree
                  THEN [pc |-> "lookup", console |-> k, code |-> code, booking |-> Null,
                        showtime |-> Null, user_name |-> "none",
                        fresh |-> /\ rows # <<>>
                                  /\ rows[1].booking_status = "confirmed"
                                  /\ ~rows[1].checked_in
                                  /\ \A r \in Slots : InFlight(r) => scan[r].code # code,
                        late |-> rows # <<>> /\ rows[1].checked_in]
                  ELSE IF InFlight(s) /\ scan[s].code = code
                       THEN [scan[s] EXCEPT !.fresh = FALSE]
                       ELSE scan[s]]
     /\ UNCHANGED <<qrCode, checkInResult, successes, lastEnded, bookings, now,
                    principal, seatVars, clickBudget, users, sessionVars,
                 restVars>>

\* an end of the attempt without the finally
EndScanNoFinally(s, result) ==
  /\ checkInResult' = [checkInResult EXCEPT ![scan[s].console] = result]
  /\ checkInLoading' = checkInLoading
  /\ scan' = [scan EXCEPT ![s] = FreeScan]
  /\ lastEnded' = scan[s]

\* the attempt ends: the result is shown and the finally clears the loading flag
EndScan(s, result) ==
  /\ checkInResult' = [checkInResult EXCEPT ![scan[s].console] = result]
  /\ checkInLoading' = [checkInLoading EXCEPT ![scan[s].console] = FALSE]
  /\ scan' = [scan EXCEPT ![s] = FreeScan]
  /\ lastEnded' = scan[s]

\* the booking lookup answers
ScanLookup(s, ok) ==
  /\ scan[s].pc = "lookup"
  /\ LET found == ListByCode(bookings, scan[s].code)
     IN IF ~ok THEN EndScan(s, Failure(TryAgainMessage))
        ELSE IF Len(found) = 0 THEN EndScan(s, Failure(NotFoundMessage))
        ELSE IF LookupOutcome(found[1]) = "used"
             THEN EndScan(s, Failure(AlreadyUsedMessage))
        ELSE IF LookupOutcome(found[1]) = "unconfirmed"
             THEN EndScan(s, Failure(NotConfirmedMessage))
        ELSE /\ scan' = [scan EXCEPT ![s].pc = "showtime", ![s].booking = Some(found[1])]
             /\ UNCHANGED <<checkInResult, checkInLoading, lastEnded>>
  /\ UNCHANGED <<qrCode, successes, bookings, now, principal, seatVars, clickBudget,
                 users, sessionVars,
                 restVars>>

\* Promise.all of the showtime and the user of the booking
ScanShowtime(s, ok) ==
  /\ scan[s].pc = "showtime"
  /\ LET b == scan[s].booking[1]
         showtimes == ListById(ShowtimesTable, b.showtime_id)
         found == ListById(users, b.user_id)
     IN IF ~ok THEN EndScan(s, Failure(TryAgainMessage))
        ELSE IF Len(showtimes) = 0 THEN EndScan(s, Failure(ShowtimeNotFoundMessage))
        ELSE /\ scan' = [scan EXCEPT ![s].pc = "movie",
                                     ![s].showtime = Some(showtimes[1]),
                                     ![s].user_name =
                                        IF Len(found) > 0 THEN found[1].name
                                        ELSE "Unknown User"]
             /\ UNCHANGED <<checkInResult, checkInLoading, lastEnded>>
  /\ UNCHANGED <<qrCode, successes, bookings, now, principal, seatVars, clickBudget,
                 users, sessionVars,
                 restVars>>

\* Promise.all of the movie and the theater of the showtime
ScanMovie(s, ok) ==
  /\ scan[s].pc = "movie"
  /\ IF ~ok THEN EndScan(s, Failure(TryAgainMessage))
     ELSE /\ scan' = [scan EXCEPT ![s].pc = "update"]
          /\ UNCHANGED <<checkInResult, checkInLoading, lastEnded>>
  /\ UNCHANGED <<qrCode, successes, bookings, now, principal, seatVars, clickBudget,
                 users, sessionVars,
                 restVars>>

\* bookings.update answers; the result is built, JSON.parse of the seats included
ScanUpdate(s, ok) ==
  /\ scan[s].pc = "update"
  /\ LET b == scan[s].booking[1]
     IN IF ~ok
        THEN /\ EndScan(s, Failure(TryAgainMessage))
             /\ UNCHANGED <<bookings, successes>>
        ELSE /\ bookings' = UpdateBooking(bookings, b.id, now)
             /\ IF ParseThrows(b.seats)
                THEN /\ EndScan(s, Failure(TryAgainMessage))
                     /\ UNCHANGED successes
                ELSE /\ EndScan(s, Success(b, scan[s].showtime[1], scan[s].user_name))
                     /\ successes' = Append(successes, b.id)
  /\ UNCHANGED <<qrCode, now, principal, seatVars, clickBudget, users, sessionVars,
                 restVars>>

handleReset(k) ==
  /\ qrCode' = [qrCode EXCEPT ![k] = Typed(BlankCode, FALSE)]
  /\ checkInResult' = [checkInResult EXCEPT ![k] = Null]
  /\ UNCHANGED <<checkInLoading, scan, successes, lastEnded, bookings, now, principal,
                 seatVars, clickBudget, users, sessionVars,
                 restVars>>

\* ------------------------------------------------------------------ App
Identities ==
  { [id |-> "u1", email |-> <<"ada", "example.org">>, displayName |-> "Ada"],
    [id |-> "u2", email |-> <<"bo", "example.org">>, displayName |-> ""] }

\* authUser.displayName || authUser.email.split('@')[0]
DefaultName(principalRec) ==
  IF principalRec.displayName # "" THEN principalRec.displayName
  ELSE principalRec.email[1]

\* the record fetchUserDetails passes to users.create
NewUser(userId, principalRec) ==
  [id |-> userId, email |-> principalRec.email, name |-> DefaultName(principalRec),
   role |-> "customer"]

\* users.create(record): the record as stored
CreateUser(table, rec) == Append(table, rec)

InitApp ==
  /\ authUser = Null
  /\ user = Null
  /\ appLoading = TRUE
  /\ appConsole = "none"
  /\ boots = <<>>

\* the onAuthStateChanged handler; with a user present fetchUserDetails starts
\* and runs up to the await of users.list
AuthStateChanged(stateUser, isLoading) ==
  /\ authUser' = stateUser
  /\ IF ~IsNull(stateUser)
     THEN /\ Len(boots) < MaxBoots
          /\ boots' = Append(boots, [stage |-> "list", userId |-> stateUser[1].id,
                                     rec |-> Null])
          /\ UNCHANGED user
     ELSE /\ user' = Null
          /\ UNCHANGED boots
  /\ appLoading' = isLoading
  /\ UNCHANGED <<revision, appConsole, users, bookings, now, principal, seatVars,
                 clickBudget, checkInVars,
                 restVars>>

\* the catch of fetchUserDetails: part_000 also stops the loading indicator
BootFailed(i) ==
  /\ boots' = RemoveAt(boots, i)
  /\ appConsole' = "Error fetching user details:"
  /\ appLoading' = IF revision = "part_000" THEN FALSE ELSE appLoading
  /\ UNCHANGED <<user, users>>

\* users.list answers
BootList(i, ok) ==
  /\ i \in 1..Len(boots)
  /\ boots[i].stage = "list"
  /\ LET found == ListById(users, boots[i].userId)
     IN IF ~ok THEN BootFailed(i)
        ELSE IF Len(found) > 0
        THEN /\ user' = Some(found[1])
             /\ boots' = RemoveAt(boots, i)
             /\ UNCHANGED <<users, appLoading, appConsole>>
        ELSE /\ boots' = [boots EXCEPT ![i].stage = "me"]
             /\ UNCHANGED <<user, users, appLoading, appConsole>>
  /\ UNCHANGED <<revision, authUser, bookings, now, principal, seatVars, clickBudget,
                 checkInVars,
                 restVars>>

\* auth.me() answers; the create request follows without an await
BootMe(i, ok) ==
  /\ i \in 1..Len(boots)
  /\ boots[i].stage = "me"
  /\ IF ~ok \/ IsNull(authUser) THEN BootFailed(i)
     ELSE /\ boots' = [boots EXCEPT ![i].stage = "create",
                                    ![i].rec = Some(NewUser(boots[i].userId, authUser[1]))]
          /\ UNCHANGED <<user, users, appLoading, appConsole>>
  /\ UNCHANGED <<revision, authUser, bookings, now, principal, seatVars, clickBudget,
                 checkInVars,
                 restVars>>

\* users.create answers
BootCreate(i, ok) ==
  /\ i \in 1..Len(boots)
  /\ boots[i].stage = "create"
  /\ IF ~ok THEN BootFailed(i)
     ELSE /\ users' = CreateUser(users, boots[i].rec[1])
          /\ user' = Some(boots[i].rec[1])
          /\ boots' = RemoveAt(boots, i)
          /\ UNCHANGED <<appLoading, appConsole>>
  /\ UNCHANGED <<revision, authUser, bookings, now, principal, seatVars, clickBudget,
                 checkInVars,
                 restVars>>

\* ------------------------------------------------------------------ the rest at rest
Dashboards == {"d1", "d2"}

\* the theaters collection: t1 and t2 applied and wait for a decision, t3 has one
TheatersSeed ==
  << [id |-> "t1", name |-> "Roxy", status |-> "pending", created_at |-> 1],
     [id |-> "t2", name |-> "Odeon", status |-> "pending", created_at |-> 2],
     [id |-> "t3", name |-> "Rex", status |-> "approved", created_at |-> 3] >>

InitPlatform ==
  /\ theaterRows = TheatersSeed
  /\ pendingTheaters = [d \in Dashboards |-> <<>>]
  /\ dashOpen = [d \in Dashboards |-> FALSE]
  /\ dashCalls = <<>>
  /\ dashConsole = [d \in Dashboards |-> "none"]
  /\ dashLast = Null
  /\ decisionBudget = 0

InitProfile ==
  /\ formData = [name |-> "", phone |-> ""]
  /\ updating = FALSE
  /\ profileCalls = <<>>
  /\ profileToast = "none"
  /\ profileBudget = 0
  /\ profileOpen = Null

InitProbe ==
  /\ probeLayout = Null
  /\ probeRow = 0
  /\ probeOut = "none"

Dates == {"mon", "tue", "wed"}
Today == "mon"

InitMovie ==
  /\ movieOpen = FALSE
  /\ selectedDate = Today
  /\ movieShowtimes = <<>>
  /\ movieLoading = TRUE
  /\ movieSet = FALSE
  /\ movieConsole = "none"
  /\ movieCalls = <<>>
  /\ dateBudget = 0

\* the components a specification leaves out: not mounted, nothing in flight
InitRest ==
  /\ location = "/"
  /\ InitPlatform
  /\ InitProfile
  /\ InitProbe
  /\ InitMovie

\* ------------------------------------------------------------------ App: what it renders
Paths == {"/", "/movie", "/book", "/booking", "/profile", "/theater-dashboard",
          "/platform-dashboard", "/check-in", "/elsewhere"}

\* <Routes> without the role conditions
RouteElementUngated(usr, path) ==
  CASE path = "/" -> "HomePage"
    [] path = "/movie" -> "MovieDetails"
    [] path = "/book" -> "SeatSelection"
    [] path = "/booking" -> "BookingConfirmation"
    [] path = "/profile" -> "UserProfile"
    [] path = "/theater-dashboard" -> "TheaterDashboard"
    [] path = "/platform-dashboard" -> "PlatformDashboard"
    [] path = "/check-in" -> "CheckInInterface"
    [] OTHER -> "none"

\* <Routes>: the element of the route the path matches, "none" when no route does
RouteElement(usr, path) ==
  CASE path = "/" -> "HomePage"
    [] path = "/movie" -> "MovieDetails"
    [] path = "/book" -> "SeatSelection"
    [] path = "/booking" -> "BookingConfirmation"
    [] path = "/profile" -> "UserProfile"
    [] path = "/theater-dashboard" ->
         IF usr.role = "theater_admin" THEN "TheaterDashboard" ELSE "none"
    [] path = "/platform-dashboard" ->
         IF usr.role = "platform_owner" THEN "PlatformDashboard" ELSE "none"
    [] path = "/check-in" -> "CheckInInterface"
    [] OTHER -> "none"

\* the return of App without its loading test
RenderWhileLoading(isLoading, usr, path) ==
  IF IsNull(usr) THEN "SignIn" ELSE RouteElement(usr[1], path)

\* the return of App
Render(isLoading, usr, path) ==
  IF isLoading THEN "LoadingScreen"
  ELSE IF IsNull(usr) THEN "SignIn"
  ELSE RouteElement(usr[1], path)

\* what the browser App runs in shows
Page == Render(appLoading, user, location)

\* Navbar: the hrefs of getRoleBasedNavItems
getRoleBasedNavItems(usr) ==
  <<"/", "/profile">>
    \o (IF usr.role = "theater_admin" THEN <<"/theater-dashboard", "/check-in">>
        ELSE <<>>)
    \o (IF usr.role = "platform_owner" THEN <<"/platform-dashboard">> ELSE <<>>)

\* App renders the Router, and with it the Navbar
RouterShown == Page \notin {"LoadingScreen", "SignIn"}

\* a link followed or an address typed
Navigate(path) ==
  /\ location' = path
  /\ UNCHANGED <<bookings, now, principal, seatVars, clickBudget, users, checkInVars,
                 sessionVars, platformVars, profileVars, probeVars, movieVars>>

\* a link of the Navbar followed
FollowNavLink(path) ==
  /\ RouterShown
  /\ Includes(getRoleBasedNavItems(user[1]), path)
  /\ location # path
  /\ Navigate(path)

\* ------------------------------------------------------------------ PlatformDashboard
\* Dashboard d1 is the one of the browser App runs in; d2 is the dashboard of
\* another platform owner's browser.
Shows(d) == d = "d1" => Page = "PlatformDashboard"

RECURSIVE OrderByCreatedAtDesc(_)
OrderByCreatedAtDesc(rows) ==
  IF rows = <<>> THEN <<>>
  ELSE LET i == CHOOSE k \in 1..Len(rows) :
                  \A j \in 1..Len(rows) : rows[j].created_at <= rows[k].created_at
       IN <<rows[i]>> \o OrderByCreatedAtDesc(RemoveAt(rows, i))

\* the list without its status condition
ListAllTheaters(table) == OrderByCreatedAtDesc(table)

\* theaters.list({ where: { status: 'pending' }, orderBy: { created_at: 'desc' } })
ListPendingTheaters(table) ==
  LET hit(t) == t.status = "pending"
  IN OrderByCreatedAtDesc(SelectSeq(table, hit))

\* theaters.update(theaterId, { status })
UpdateTheater(table, theaterId, status) ==
  [i \in 1..Len(table) |->
     IF table[i].id = theaterId THEN [table[i] EXCEPT !.status = status] ELSE table[i]]

TheaterIds(rows) == {rows[i].id : i \in 1..Len(rows)}

\* the call of fetchDashboardStats up to its await of theaters.list; after is
\* Null, or the theater whose update the refresh follows
ListCall(d, after) ==
  [dash |-> d, kind |-> "list", theaterId |-> "none", status |-> "none",
   after |-> after, orphan |-> FALSE]

UpdateCall(d, theaterId, status) ==
  [dash |-> d, kind |-> "update", theaterId |-> theaterId, status |-> status,
   after |-> Null, orphan |-> FALSE]

Answered(call, ok) ==
  Some([call |-> call, ok |-> ok,
        seq |-> IF IsNull(dashLast) THEN 0 ELSE 1 - dashLast[1].seq])

\* the mount of PlatformDashboard: useEffect calls fetchDashboardStats
MountDashboard(d) ==
  /\ ~dashOpen[d]
  /\ Shows(d)
  /\ Len(dashCalls) < MaxDashCalls
  /\ dashOpen' = [dashOpen EXCEPT ![d] = TRUE]
  /\ pendingTheaters' = [pendingTheaters EXCEPT ![d] = <<>>]
  /\ dashCalls' = Append(dashCalls, ListCall(d, Null))
  /\ UNCHANGED <<theaterRows, dashConsole, dashLast, decisionBudget>>
  /\ UNCHANGED <<bookings, now, principal, seatVars, clickBudget, users, checkInVars,
                 sessionVars, location, profileVars, probeVars, movieVars>>

\* App stops rendering the dashboard: its state is gone, and what its calls in
\* flight set later is set on no component
UnmountDashboard(d) ==
  /\ dashOpen[d]
  /\ ~Shows(d)
  /\ dashOpen' = [dashOpen EXCEPT ![d] = FALSE]
  /\ pendingTheaters' = [pendingTheaters EXCEPT ![d] = <<>>]
  /\ dashCalls' = [i \in 1..Len(dashCalls) |->
                     IF dashCalls[i].dash = d
                     THEN [dashCalls[i] EXCEPT !.orphan = TRUE] ELSE dashCalls[i]]
  /\ UNCHANGED <<theaterRows, dashConsole, dashLast, decisionBudget>>
  /\ UNCHANGED <<bookings, now, principal, seatVars, clickBudget, users, checkInVars,
                 sessionVars, location, profileVars, probeVars, movieVars>>

\* handleTheaterApproval up to its await of theaters.update; the Approve and
\* Reject buttons exist for the theaters of pendingTheaters
handleTheaterApproval(d, theaterId, status) ==
  /\ dashOpen[d]
  /\ Shows(d)
  /\ theaterId \in TheaterIds(pendingTheaters[d])
  /\ decisionBudget > 0
  /\ Len(dashCalls) < MaxDashCalls
  /\ decisionBudget' = decisionBudget - 1
  /\ dashCalls' = Append(dashCalls, UpdateCall(d, theaterId, status))
  /\ UNCHANGED <<theaterRows, pendingTheaters, dashOpen, dashConsole, dashLast>>
  /\ UNCHANGED <<bookings, now, principal, seatVars, clickBudget, users, checkInVars,
                 sessionVars, location, profileVars, probeVars, movieVars>>

\* theaters.update answers; on success fetchDashboardStats is called and runs
\* up to its await
ApprovalUpdate(i, ok) ==
  /\ i \in 1..Len(dashCalls)
  /\ dashCalls[i].kind = "update"
  /\ LET c == dashCalls[i]
     IN /\ dashLast' = Answered(c, ok)
        /\ IF ok
           THEN /\ theaterRows' = UpdateTheater(theaterRows, c.theaterId, c.status)
                /\ dashCalls' = Append(RemoveAt(dashCalls, i),
                                       [ListCall(c.dash, Some(c.theaterId))
                                          EXCEPT !.orphan = c.orphan])
                /\ UNCHANGED dashConsole
           ELSE /\ dashCalls' = RemoveAt(dashCalls, i)
                /\ dashConsole' = [dashConsole EXCEPT
                                     ![c.dash] = "Error updating theater status:"]
                /\ UNCHANGED theaterRows
  /\ UNCHANGED <<pendingTheaters, dashOpen, decisionBudget>>
  /\ UNCHANGED <<bookings, now, principal, seatVars, clickBudget, users, checkInVars,
                 sessionVars, location, profileVars, probeVars, movieVars>>

\* theaters.list answers fetchDashboardStats
FetchPending(i, ok) ==
  /\ i \in 1..Len(dashCalls)
  /\ dashCalls[i].kind = "list"
  /\ LET c == dashCalls[i]
     IN /\ dashLast' = Answered(c, ok)
        /\ dashCalls' = RemoveAt(dashCalls, i)
        /\ IF ok
           THEN /\ pendingTheaters' =
                     IF c.orphan THEN pendingTheaters
                     ELSE [pendingTheaters EXCEPT
                             ![c.dash] = ListPendingTheaters(theaterRows)]
                /\ UNCHANGED dashConsole
           ELSE /\ dashConsole' = [dashConsole EXCEPT
                                     ![c.dash] = "Error fetching dashboard stats:"]
                /\ UNCHANGED pendingTheaters
  /\ UNCHANGED <<theaterRows, dashOpen, decisionBudget>>
  /\ UNCHANGED <<bookings, now, principal, seatVars, clickBudget, users, checkInVars,
                 sessionVars, location, profileVars, probeVars, movieVars>>

\* ------------------------------------------------------------------ UserProfile
\* The form of the profile page; the booking history the page also loads is
\* left out. The page belongs to the browser App runs in.
FormNames == {"Bob"}
FormPhones == {"555"}

\* user.phone || ''
PhoneOf(usr) == IF "phone" \in DOMAIN usr THEN usr.phone ELSE ""

\* users.update(user.id, { name, phone }) with role added to what is written
ProfilePatchWithRole(form) ==
  [name |-> form.name, phone |-> form.phone, role |-> "platform_owner"]

\* the partial record handleUpdateProfile passes to users.update
ProfilePatch(form) == [name |-> form.name, phone |-> form.phone]

\* users.update(id, partialRecord): the fields of the partial record replace or
\* extend those of the records with the id
UpdateUser(table, id, patch) ==
  [i \in 1..Len(table) |->
     IF table[i].id = id
     THEN [f \in (DOMAIN table[i]) \cup (DOMAIN patch) |->
             IF f \in DOMAIN patch THEN patch[f] ELSE table[i][f]]
     ELSE table[i]]

\* the mount of UserProfile with the session user as its user prop
MountUserProfile ==
  /\ IsNull(profileOpen)
  /\ Page = "UserProfile"
  /\ profileOpen' = user
  /\ formData' = [name |-> user[1].name, phone |-> PhoneOf(user[1])]
  /\ updating' = FALSE
  /\ UNCHANGED <<profileCalls, profileToast, profileBudget>>
  /\ UNCHANGED <<bookings, now, principal, seatVars, clickBudget, users, checkInVars,
                 sessionVars, location, platformVars, probeVars, movieVars>>

\* App stops rendering the page
UnmountUserProfile ==
  /\ ~IsNull(profileOpen)
  /\ Page # "UserProfile"
  /\ profileOpen' = Null
  /\ UNCHANGED <<formData, updating, profileCalls, profileToast, profileBudget>>
  /\ UNCHANGED <<bookings, now, principal, seatVars, clickBudget, users, checkInVars,
                 sessionVars, location, platformVars, probeVars, movieVars>>

\* the onChange of the name and phone inputs
SetFormData(name, phone) ==
  /\ ~IsNull(profileOpen)
  /\ Page = "UserProfile"
  /\ profileBudget > 0
  /\ formData # [name |-> name, phone |-> phone]
  /\ (name = formData.name \/ phone = formData.phone)
  /\ formData' = [name |-> name, phone |-> phone]
  /\ profileBudget' = profileBudget - 1
  /\ UNCHANGED <<updating, profileCalls, profileToast, profileOpen>>
  /\ UNCHANGED <<bookings, now, principal, seatVars, clickBudget, users, checkInVars,
                 sessionVars, location, platformVars, probeVars, movieVars>>

\* handleUpdateProfile up to its await of users.update; the Save button is
\* disabled while updating
handleUpdateProfile ==
  /\ ~IsNull(profileOpen)
  /\ Page = "UserProfile"
  /\ ~updating
  /\ profileBudget > 0
  /\ profileBudget' = profileBudget - 1
  /\ updating' = TRUE
  /\ profileCalls' = Append(profileCalls, [userId |-> profileOpen[1].id,
                                           patch |-> ProfilePatch(formData)])
  /\ UNCHANGED <<formData, profileToast, profileOpen>>
  /\ UNCHANGED <<bookings, now, principal, seatVars, clickBudget, users, checkInVars,
                 sessionVars, location, platformVars, probeVars, movieVars>>

\* users.update answers
ProfileUpdate(i, ok) ==
  /\ i \in 1..Len(profileCalls)
  /\ profileCalls' = RemoveAt(profileCalls, i)
  /\ IF ok
     THEN /\ users' = UpdateUser(users, profileCalls[i].userId, profileCalls[i].patch)
          /\ profileToast' = "Profile Updated"
     ELSE /\ UNCHANGED users
          /\ profileToast' = "Update Failed"
  /\ updating' = FALSE
  /\ UNCHANGED <<formData, profileBudget, profileOpen>>
  /\ UNCHANGED <<bookings, now, principal, seatVars, clickBudget, checkInVars,
                 sessionVars, location, platformVars, probeVars, movieVars>>

\* One browser, any showtime of the catalog, any seed of the bookings collection.
Init ==
  /\ bookings \in SeatSeeds
  /\ now = 0
  /\ principal = [v \in Views |-> IF v = "v1" THEN "u1" ELSE "u2"]
  /\ InitSeat
  /\ users = UsersSeed
  /\ InitCheckIn
  /\ revision = "part_000"
  /\ InitApp
  /\ InitRest
  /\ route = [v \in Views |-> IF v = "v1" THEN "home" ELSE "closed"]

Next ==
  \/ \E v \in Views, sid \in RouteParams : OpenSeatSelection(v, sid)
  \/ \E v \in Views, ok \in BOOLEAN : FetchShowtime(v, ok)
  \/ \E v \in Views, ok \in BOOLEAN : FetchDetails(v, ok)
  \/ \E v \in Views, ok \in BOOLEAN : FetchOccupied(v, ok)
  \/ \E v \in Views, seatId \in SeatIds : handleSeatClick(v, seatId)
  \/ \E v \in Views : handleProceedToPayment(v)
  \/ \E v \in Views, i \in 1..MaxPending, ok \in BOOLEAN : ProceedAuthMe(v, i, ok)
  \/ \E v \in Views, i \in 1..MaxPending, ok \in BOOLEAN : ProceedCreate(v, i, ok)
  \/ Tick

Spec == Init /\ [][Next]_vars

\* One browser loading the page: any showtime of the catalog, any seed of the
\* bookings collection, up to the rendered seat map and the clicks on it.
NextOccupancy ==
  \/ \E v \in Views, sid \in RouteParams : OpenSeatSelection(v, sid)
  \/ \E v \in Views, ok \in BOOLEAN : FetchShowtime(v, ok)
  \/ \E v \in Views, ok \in BOOLEAN : FetchDetails(v, ok)
  \/ \E v \in Views, ok \in BOOLEAN : FetchOccupied(v, ok)
  \/ \E v \in Views, seatId \in SeatIds : handleSeatClick(v, seatId)

SpecOccupancy == Init /\ [][NextOccupancy]_vars

\* One browser loading the page and clicking on the seat map, the clicks
\* counted: a click that changes nothing is a step all the same.
SelectionSeeds ==
  {<<>>,
   <<SeedBooking(-1, "st1", "confirmed", SeedSeats, FALSE)>>,
   <<SeedBooking(-1, "st1", "confirmed", SeedSeats, FALSE),
     SeedBooking(-2, "st1", "confirmed", JSONstringify(<<SeatId(2, 1)>>), FALSE)>>}

InitSelection ==
  /\ bookings \in SelectionSeeds
  /\ now = 0
  /\ principal = [v \in Views |-> IF v = "v1" THEN "u1" ELSE "u2"]
  /\ showtimeId = [v \in Views |-> "none"]
  /\ pc = [v \in Views |-> "idle"]
  /\ showtime = [v \in Views |-> Null]
  /\ movie = [v \in Views |-> Null]
  /\ theater = [v \in Views |-> Null]
  /\ screen = [v \in Views |-> Null]
  /\ seatLayout = [v \in Views |-> Null]
  /\ selectedSeats = [v \in Views |-> <<>>]
  /\ occupiedSeats = [v \in Views |-> <<>>]
  /\ loading = [v \in Views |-> TRUE]
  /\ toast = [v \in Views |-> "none"]
  /\ console = [v \in Views |-> "none"]
  /\ pending = [v \in Views |-> <<>>]
  /\ clickBudget = MaxClicks
  /\ users = UsersSeed
  /\ InitCheckIn
  /\ revision = "part_000"
  /\ InitApp
  /\ InitRest
  /\ route = [v \in Views |-> IF v = "v1" THEN "home" ELSE "closed"]

NextSelection ==
  \/ \E v \in Views, sid \in RouteParams : OpenSeatSelection(v, sid)
  \/ \E v \in Views, ok \in BOOLEAN : FetchShowtime(v, ok)
  \/ \E v \in Views, ok \in BOOLEAN : FetchDetails(v, ok)
  \/ \E v \in Views, ok \in BOOLEAN : FetchOccupied(v, ok)
  \/ \E v \in Views, seatId \in SeatIds : handleSeatClick(v, seatId)

SpecSelection == InitSelection /\ [][NextSelection]_vars

\* One browser selecting and submitting on the three-class and the two-seat
\* screen, with the house empty or one seat taken; the clock stands still.
SubmitSeeds == {<<>>, <<SeedBooking(-1, "st1", "confirmed", SeedSeats, FALSE)>>}
SubmitRoutes == {"st1", "st4"}

InitSubmit ==
  /\ bookings \in SubmitSeeds
  /\ now = 0
  /\ principal = [v \in Views |-> IF v = "v1" THEN "u1" ELSE "u2"]
  /\ InitSeat
  /\ users = UsersSeed
  /\ InitCheckIn
  /\ revision = "part_000"
  /\ InitApp
  /\ InitRest
  /\ route = [v \in Views |-> IF v = "v1" THEN "home" ELSE "closed"]

NextSubmit ==
  \/ \E v \in Views, sid \in SubmitRoutes : OpenSeatSelection(v, sid)
  \/ \E v \in Views, ok \in BOOLEAN : FetchShowtime(v, ok)
  \/ \E v \in Views, ok \in BOOLEAN : FetchDetails(v, ok)
  \/ \E v \in Views, ok \in BOOLEAN : FetchOccupied(v, ok)
  \/ \E v \in Views, seatId \in SeatIds : handleSeatClick(v, seatId)
  \/ \E v \in Views : handleProceedToPayment(v)
  \/ \E v \in Views, i \in 1..MaxPending, ok \in BOOLEAN : ProceedAuthMe(v, i, ok)
  \/ \E v \in Views, i \in 1..MaxPending, ok \in BOOLEAN : ProceedCreate(v, i, ok)

SpecSubmit == InitSubmit /\ [][NextSubmit]_vars

\* Two browsers of two users on the same showtime.
RaceSeeds == {<<>>, <<SeedBooking(-1, "st4", "confirmed", SeedSeats, FALSE)>>}

InitRace ==
  /\ bookings \in RaceSeeds
  /\ now = 0
  /\ principal = [v \in Views |-> IF v = "v1" THEN "u1" ELSE "u2"]
  /\ InitSeat
  /\ users = UsersSeed
  /\ InitCheckIn
  /\ revision = "part_000"
  /\ InitApp
  /\ InitRest
  /\ route = [v \in Views |-> "home"]

NextRace ==
  \/ \E v \in Views : OpenSeatSelection(v, "st4")
  \/ \E v \in Views, ok \in BOOLEAN : FetchShowtime(v, ok)
  \/ \E v \in Views, ok \in BOOLEAN : FetchDetails(v, ok)
  \/ \E v \in Views, ok \in BOOLEAN : FetchOccupied(v, ok)
  \/ \E v \in Views, seatId \in SeatIds : handleSeatClick(v, seatId)
  \/ \E v \in Views : handleProceedToPayment(v)
  \/ \E v \in Views, i \in 1..MaxPending, ok \in BOOLEAN : ProceedAuthMe(v, i, ok)
  \/ \E v \in Views, i \in 1..MaxPending, ok \in BOOLEAN : ProceedCreate(v, i, ok)

SpecRace == InitRace /\ [][NextRace]_vars

\* A seat map already on screen with the first k seats of the row selected in
\* order, as k clicks leave it; MaxClicks further clicks are followed.
PreparedSelection(k) == [i \in 1..k |-> SeatId(1, i)]

InitLimit ==
  /\ bookings = <<>>
  /\ now = 0
  /\ principal = [v \in Views |-> IF v = "v1" THEN "u1" ELSE "u2"]
  /\ route = [v \in Views |-> IF v = "v1" THEN "book" ELSE "closed"]
  /\ showtimeId = [v \in Views |-> IF v = "v1" THEN "st5" ELSE "none"]
  /\ pc = [v \in Views |-> IF v = "v1" THEN "done" ELSE "idle"]
  /\ showtime = [v \in Views |-> IF v = "v1" THEN ListById(ShowtimesTable, "st5") ELSE Null]
  /\ movie = [v \in Views |-> IF v = "v1" THEN ListById(MoviesTable, "m1") ELSE Null]
  /\ theater = [v \in Views |-> IF v = "v1" THEN ListById(TheatersTable, "t1") ELSE Null]
  /\ screen = [v \in Views |-> IF v = "v1" THEN ListById(ScreensTable, "sc4") ELSE Null]
  /\ seatLayout = [v \in Views |-> IF v = "v1" THEN Some(Layout12) ELSE Null]
  /\ \E k \in 0..MaxSeats :
       selectedSeats = [v \in Views |-> IF v = "v1" THEN PreparedSelection(k) ELSE <<>>]
  /\ \E occ \in {<<>>, <<SeatId(1, 12)>>} :
       occupiedSeats = [v \in Views |-> IF v = "v1" THEN occ ELSE <<>>]
  /\ loading = [v \in Views |-> v # "v1"]
  /\ toast = [v \in Views |-> "none"]
  /\ console = [v \in Views |-> "none"]
  /\ pending = [v \in Views |-> <<>>]
  /\ clickBudget = MaxClicks
  /\ users = UsersSeed
  /\ InitCheckIn
  /\ revision = "part_000"
  /\ InitApp
  /\ InitRest

NextLimit ==
  \/ \E v \in Views, seatId \in SeatIds : handleSeatClick(v, seatId)

SpecLimit == InitLimit /\ [][NextLimit]_vars


\* The check-in consoles over bookings as the seat selection writes them, some
\* cancelled or refunded since, some already checked in.
CodeA == <<"QR", -1, "u2">>
CodeB == <<"QR", -2, "u2">>
CodeUnknown == <<"QR", -9, "u9">>

CheckInSeeds ==
  {<<SeedBooking(-1, "st1", "confirmed", SeedSeats, FALSE),
     SeedBooking(-2, "st1", other[1], SeedSeats, other[2])>> :
      other \in {<<"confirmed", TRUE>>, <<"cancelled", FALSE>>, <<"refunded", TRUE>>}}

TypedCodes ==
  {Typed(c, FALSE) : c \in {CodeA, CodeB, CodeUnknown}}
  \cup {Typed(CodeA, TRUE), Typed(BlankCode, TRUE)}

\* One console, any code typed, any seed.
InitConsole ==
  /\ bookings \in CheckInSeeds
  /\ now = 0
  /\ principal = [v \in Views |-> IF v = "v1" THEN "u1" ELSE "u2"]
  /\ InitSeat
  /\ route = [v \in Views |-> "closed"]
  /\ users = UsersSeed
  /\ InitCheckIn
  /\ revision = "part_000"
  /\ InitApp
  /\ InitRest

NextConsole ==
  \/ \E text \in TypedCodes : SetQrCode("k1", text)
  \/ handleQRScan("k1")
  \/ \E s \in Slots, ok \in BOOLEAN : ScanLookup(s, ok)
  \/ \E s \in Slots, ok \in BOOLEAN : ScanShowtime(s, ok)
  \/ \E s \in Slots, ok \in BOOLEAN : ScanMovie(s, ok)
  \/ \E s \in Slots, ok \in BOOLEAN : ScanUpdate(s, ok)
  \/ handleReset("k1")

SpecConsole == InitConsole /\ [][NextConsole]_vars

\* One console over confirmed bookings that cannot be shown: the seat text of
\* the first is no JSON, the showtime of the second is not in the catalog.
OddSeeds ==
  {<<SeedBooking(-1, "st1", "confirmed", text, FALSE),
     SeedBooking(-2, "st9", "confirmed", SeedSeats, FALSE)>> :
      text \in {GarbageText, EmptyText}}

InitOddBookings ==
  /\ bookings \in OddSeeds
  /\ now = 0
  /\ principal = [v \in Views |-> IF v = "v1" THEN "u1" ELSE "u2"]
  /\ InitSeat
  /\ route = [v \in Views |-> "closed"]
  /\ users = UsersSeed
  /\ InitCheckIn
  /\ revision = "part_000"
  /\ InitApp
  /\ InitRest

NextOddBookings ==
  \/ \E code \in {CodeA, CodeB} : SetQrCode("k1", Typed(code, FALSE))
  \/ handleQRScan("k1")
  \/ \E s \in Slots, ok \in BOOLEAN : ScanLookup(s, ok)
  \/ \E s \in Slots, ok \in BOOLEAN : ScanShowtime(s, ok)
  \/ \E s \in Slots, ok \in BOOLEAN : ScanMovie(s, ok)
  \/ \E s \in Slots, ok \in BOOLEAN : ScanUpdate(s, ok)
  \/ handleReset("k1")

SpecOddBookings == InitOddBookings /\ [][NextOddBookings]_vars

\* Two consoles at which the code of one confirmed booking is presented.
InitConsoles ==
  /\ bookings = <<SeedBooking(-1, "st1", "confirmed", SeedSeats, FALSE)>>
  /\ now = 0
  /\ principal = [v \in Views |-> IF v = "v1" THEN "u1" ELSE "u2"]
  /\ InitSeat
  /\ route = [v \in Views |-> "closed"]
  /\ users = UsersSeed
  /\ InitCheckIn
  /\ revision = "part_000"
  /\ InitApp
  /\ InitRest

NextConsoles ==
  \/ \E k \in Consoles : SetQrCode(k, Typed(CodeA, FALSE))
  \/ \E k \in Consoles : handleQRScan(k)
  \/ \E s \in Slots, ok \in BOOLEAN : ScanLookup(s, ok)
  \/ \E s \in Slots, ok \in BOOLEAN : ScanShowtime(s, ok)
  \/ \E s \in Slots, ok \in BOOLEAN : ScanMovie(s, ok)
  \/ \E s \in Slots, ok \in BOOLEAN : ScanUpdate(s, ok)
  \/ \E k \in Consoles : handleReset(k)

SpecConsoles == InitConsoles /\ [][NextConsoles]_vars

\* The session bootstrap: auth-state events of the identity provider in any
\* order, with either revision of App.
InitSession ==
  /\ bookings = <<>>
  /\ now = 0
  /\ principal = [v \in Views |-> IF v = "v1" THEN "u1" ELSE "u2"]
  /\ InitSeat
  /\ route = [v \in Views |-> "closed"]
  /\ users = UsersSeed
  /\ InitCheckIn
  /\ revision \in {"App.tsx", "part_000"}
  /\ InitApp
  /\ InitRest

NextSession ==
  \/ \E stateUser \in {Null} \cup {Some(p) : p \in Identities}, isLoading \in BOOLEAN :
       AuthStateChanged(stateUser, isLoading)
  \/ \E i \in 1..MaxBoots, ok \in BOOLEAN : BootList(i, ok)
  \/ \E i \in 1..MaxBoots, ok \in BOOLEAN : BootMe(i, ok)
  \/ \E i \in 1..MaxBoots, ok \in BOOLEAN : BootCreate(i, ok)

SpecSession == InitSession /\ [][NextSession]_vars

\* Two platform owners at their dashboards; every gateway call is answered.
OwnerSeed == << [id |-> "u4", email |-> <<"dee", "example.org">>, name |-> "Dee",
                 role |-> "platform_owner"] >>

InitDash ==
  /\ bookings = <<>>
  /\ now = 0
  /\ principal = [v \in Views |-> IF v = "v1" THEN "u1" ELSE "u2"]
  /\ InitSeat
  /\ route = [v \in Views |-> "closed"]
  /\ users = UsersSeed \o OwnerSeed
  /\ InitCheckIn
  /\ revision = "part_000"
  /\ authUser = Some([id |-> "u4", email |-> <<"dee", "example.org">>,
                      displayName |-> "Dee"])
  /\ user = Some(OwnerSeed[1])
  /\ appLoading = FALSE
  /\ appConsole = "none"
  /\ boots = <<>>
  /\ location = "/platform-dashboard"
  /\ theaterRows = TheatersSeed
  /\ pendingTheaters = [d \in Dashboards |-> <<>>]
  /\ dashOpen = [d \in Dashboards |-> FALSE]
  /\ dashCalls = <<>>
  /\ dashConsole = [d \in Dashboards |-> "none"]
  /\ dashLast = Null
  /\ decisionBudget = MaxDecisions
  /\ InitProfile
  /\ InitProbe
  /\ InitMovie

NextDash ==
  \/ \E d \in Dashboards : MountDashboard(d)
  \/ \E d \in Dashboards, t \in TheaterIds(TheatersSeed),
        status \in {"approved", "rejected"} : handleTheaterApproval(d, t, status)
  \/ \E i \in 1..Len(dashCalls), ok \in BOOLEAN : ApprovalUpdate(i, ok)
  \/ \E i \in 1..Len(dashCalls), ok \in BOOLEAN : FetchPending(i, ok)

SpecDash ==
  /\ InitDash
  /\ [][NextDash]_vars
  /\ WF_vars(\E i \in 1..Len(dashCalls), ok \in BOOLEAN : ApprovalUpdate(i, ok))
  /\ WF_vars(\E i \in 1..Len(dashCalls), ok \in BOOLEAN : FetchPending(i, ok))

\* getSeatType applied to a row of a layout: any three row lists over the rows
\* of the screen, disjoint or not, and a screen without a layout.
RECURSIVE AscendingSeq(_)
AscendingSeq(S) ==
  IF S = {} THEN <<>>
  ELSE LET m == CHOOSE x \in S : \A y \in S : x <= y
       IN <<m>> \o AscendingSeq(S \ {m})

ProbeLayouts ==
  {Null} \cup
  {Some([rows |-> MaxRows, seatsPerRow |-> 1, premium |-> AscendingSeq(P),
         gold |-> AscendingSeq(G), regular |-> AscendingSeq(R)]) :
     P \in SUBSET (1..MaxRows), G \in SUBSET (1..MaxRows), R \in SUBSET (1..MaxRows)}

InitSeatType ==
  /\ bookings = <<>>
  /\ now = 0
  /\ principal = [v \in Views |-> IF v = "v1" THEN "u1" ELSE "u2"]
  /\ InitSeat
  /\ route = [v \in Views |-> "closed"]
  /\ users = UsersSeed
  /\ InitCheckIn
  /\ revision = "part_000"
  /\ InitApp
  /\ location = "/"
  /\ InitPlatform
  /\ InitProfile
  /\ probeLayout \in ProbeLayouts
  /\ probeRow \in 0..(MaxRows + 1)
  /\ probeOut = "none"
  /\ InitMovie

ApplyGetSeatType ==
  /\ probeOut = "none"
  /\ probeOut' = getSeatType(probeLayout, probeRow)
  /\ UNCHANGED <<bookings, now, principal, seatVars, clickBudget, users, checkInVars,
                 sessionVars, location, platformVars, profileVars, probeLayout,
                 probeRow, movieVars>>

NextSeatType == ApplyGetSeatType

SpecSeatType == InitSeatType /\ [][NextSeatType]_vars

\* The browser App runs in: sign-ins and sign-outs of a customer, a theater
\* admin and a platform owner, addresses typed and links followed.
StaffSeed == << [id |-> "u3", email |-> <<"cy", "example.org">>, name |-> "Cy",
                 role |-> "theater_admin"] >>

RouteIdentities ==
  { [id |-> "u2", email |-> <<"bo", "example.org">>, displayName |-> ""],
    [id |-> "u3", email |-> <<"cy", "example.org">>, displayName |-> "Cy"],
    [id |-> "u4", email |-> <<"dee", "example.org">>, displayName |-> "Dee"] }

InitRoutes ==
  /\ bookings = <<>>
  /\ now = 0
  /\ principal = [v \in Views |-> IF v = "v1" THEN "u1" ELSE "u2"]
  /\ InitSeat
  /\ route = [v \in Views |-> "closed"]
  /\ users = UsersSeed \o StaffSeed \o OwnerSeed
  /\ InitCheckIn
  /\ revision = "App.tsx"
  /\ InitApp
  /\ location \in Paths
  /\ InitPlatform
  /\ InitProfile
  /\ InitProbe
  /\ InitMovie

NextRoutes ==
  \/ \E stateUser \in {Null} \cup {Some(p) : p \in RouteIdentities},
        isLoading \in BOOLEAN : AuthStateChanged(stateUser, isLoading)
  \/ \E i \in 1..MaxBoots, ok \in BOOLEAN : BootList(i, ok)
  \/ \E path \in Paths : Navigate(path)
  \/ \E path \in Paths : FollowNavLink(path)

SpecRoutes == InitRoutes /\ [][NextRoutes]_vars

\* The browser App runs in, with the platform dashboard: sign-ins and sign-outs
\* of a platform owner, the address of the dashboard typed and left. A dashboard App no longer renders is unmounted before anything
\* else happens.
GateIdentities ==
  { [id |-> "u4", email |-> <<"dee", "example.org">>, displayName |-> "Dee"] }

GatePaths == {"/", "/platform-dashboard"}

InitGate ==
  /\ bookings = <<>>
  /\ now = 0
  /\ principal = [v \in Views |-> IF v = "v1" THEN "u1" ELSE "u2"]
  /\ InitSeat
  /\ route = [v \in Views |-> "closed"]
  /\ users = UsersSeed \o OwnerSeed
  /\ InitCheckIn
  /\ revision = "App.tsx"
  /\ InitApp
  /\ location = "/platform-dashboard"
  /\ theaterRows = TheatersSeed
  /\ pendingTheaters = [d \in Dashboards |-> <<>>]
  /\ dashOpen = [d \in Dashboards |-> FALSE]
  /\ dashCalls = <<>>
  /\ dashConsole = [d \in Dashboards |-> "none"]
  /\ dashLast = Null
  /\ decisionBudget = MaxDecisions - 1
  /\ InitProfile
  /\ InitProbe
  /\ InitMovie

NextGate ==
  \/ /\ dashOpen["d1"] /\ ~Shows("d1")
     /\ UnmountDashboard("d1")
  \/ /\ ~(dashOpen["d1"] /\ ~Shows("d1"))
     /\ \/ \E stateUser \in {Null} \cup {Some(p) : p \in GateIdentities},
              isLoading \in BOOLEAN : AuthStateChanged(stateUser, isLoading)
        \/ \E i \in 1..MaxBoots, ok \in BOOLEAN : BootList(i, ok)
        \/ \E path \in GatePaths : Navigate(path)
        \/ MountDashboard("d1")
        \/ \E t \in TheaterIds(TheatersSeed) : handleTheaterApproval("d1", t, "approved")
        \/ \E i \in 1..Len(dashCalls), ok \in BOOLEAN : ApprovalUpdate(i, ok)
        \/ \E i \in 1..Len(dashCalls), ok \in BOOLEAN : FetchPending(i, ok)

SpecGate == InitGate /\ [][NextGate]_vars

\* The browser App runs in, at the profile page: sign-ins and sign-outs of a new
\* customer, the form edited and saved. A page App no
\* longer renders is unmounted before anything else happens.
ProfileIdentities ==
  { [id |-> "u1", email |-> <<"ada", "example.org">>, displayName |-> "Ada"] }

InitProfilePage ==
  /\ bookings = <<>>
  /\ now = 0
  /\ principal = [v \in Views |-> IF v = "v1" THEN "u1" ELSE "u2"]
  /\ InitSeat
  /\ route = [v \in Views |-> "closed"]
  /\ users = UsersSeed \o StaffSeed
  /\ InitCheckIn
  /\ revision = "App.tsx"
  /\ InitApp
  /\ location = "/profile"
  /\ InitPlatform
  /\ formData = [name |-> "", phone |-> ""]
  /\ updating = FALSE
  /\ profileCalls = <<>>
  /\ profileToast = "none"
  /\ profileBudget = MaxEdits
  /\ profileOpen = Null
  /\ InitProbe
  /\ InitMovie

NextProfilePage ==
  \/ /\ ~IsNull(profileOpen) /\ Page # "UserProfile"
     /\ UnmountUserProfile
  \/ /\ ~(~IsNull(profileOpen) /\ Page # "UserProfile")
     /\ \/ \E stateUser \in {Null} \cup {Some(p) : p \in ProfileIdentities},
              isLoading \in BOOLEAN : AuthStateChanged(stateUser, isLoading)
        \/ \E i \in 1..MaxBoots, ok \in BOOLEAN : BootList(i, ok)
        \/ \E i \in 1..MaxBoots, ok \in BOOLEAN : BootMe(i, ok)
        \/ \E i \in 1..MaxBoots, ok \in BOOLEAN : BootCreate(i, ok)
        \/ MountUserProfile
        \/ \E name \in FormNames \cup {formData.name},
              phone \in FormPhones \cup {formData.phone} : SetFormData(name, phone)
        \/ handleUpdateProfile
        \/ \E i \in 1..Len(profileCalls), ok \in BOOLEAN : ProfileUpdate(i, ok)

SpecProfilePage == InitProfilePage /\ [][NextProfilePage]_vars

\* ------------------------------------------------------------------ MovieDetails
\* the showtimes collection as MovieDetails reads it: movie, date and time
DatedShowtimes ==
  << [id |-> "st1", movie_id |-> "m1", show_date |-> "mon", show_time |-> 2,
      theater_id |-> "t1", screen_id |-> "sc1"],
     [id |-> "st2", movie_id |-> "m1", show_date |-> "mon", show_time |-> 1,
      theater_id |-> "t1", screen_id |-> "sc1"],
     [id |-> "st3", movie_id |-> "m1", show_date |-> "tue", show_time |-> 1,
      theater_id |-> "t1", screen_id |-> "sc2"],
     [id |-> "st6", movie_id |-> "m2", show_date |-> "tue", show_time |-> 1,
      theater_id |-> "t9", screen_id |-> "sc1"] >>

\* orderBy: { show_time: 'asc' }
RECURSIVE OrderByShowTimeAsc(_)
OrderByShowTimeAsc(rows) ==
  IF rows = <<>> THEN <<>>
  ELSE LET k == CHOOSE i \in 1..Len(rows) :
                  \A j \in 1..Len(rows) :
                    \/ rows[i].show_time < rows[j].show_time
                    \/ (rows[i].show_time = rows[j].show_time /\ i <= j)
       IN <<rows[k]>> \o OrderByShowTimeAsc(RemoveAt(rows, k))

\* showtimes.list({ where: { movie_id, show_date }, orderBy: { show_time: 'asc' } })
ListMovieShowtimes(table, movieId, date) ==
  LET hit(st) == st.movie_id = movieId /\ st.show_date = date
  IN OrderByShowTimeAsc(SelectSeq(table, hit))

\* the map over showtimesData: each showtime with the name of its theater and
\* the format of its screen, or the defaults
EnrichShowtimes(rows) ==
  [i \in 1..Len(rows) |->
     [id |-> rows[i].id, show_date |-> rows[i].show_date, show_time |-> rows[i].show_time,
      theater_name |-> IF Len(ListById(TheatersTable, rows[i].theater_id)) > 0
                       THEN rows[i].theater_id ELSE "Unknown Theater",
      format |-> IF Len(ListById(ScreensTable, rows[i].screen_id)) > 0
                 THEN rows[i].screen_id ELSE "2D"]]

MovieCall == [kind |-> "movie", date |-> "none", rows |-> <<>>]
ShowtimesCall(date) == [kind |-> "list", date |-> date, rows |-> <<>>]

\* the route /movie/m1 is opened: the effect calls fetchMovieDetails and
\* fetchShowtimes, each up to its first await
MountMovieDetails ==
  /\ ~movieOpen
  /\ movieOpen' = TRUE
  /\ movieCalls' = movieCalls \o <<MovieCall, ShowtimesCall(selectedDate)>>
  /\ UNCHANGED <<selectedDate, movieShowtimes, movieLoading, movieSet, movieConsole,
                 dateBudget>>
  /\ UNCHANGED <<bookings, now, principal, seatVars, clickBudget, users, checkInVars,
                 sessionVars, location, platformVars, profileVars, probeVars>>

\* the page is on screen: neither loading nor without its movie
MovieRendered == movieOpen /\ ~movieLoading /\ movieSet

\* a date button: setSelectedDate; a new date makes the effect run again, with
\* a fetchShowtimes that closes over the new date
SetSelectedDate(date) ==
  /\ MovieRendered
  /\ dateBudget > 0
  /\ dateBudget' = dateBudget - 1
  /\ selectedDate' = date
  /\ IF date # selectedDate
     THEN /\ Len(movieCalls) + 2 <= MaxMovieCalls
          /\ movieCalls' = movieCalls \o <<MovieCall, ShowtimesCall(date)>>
     ELSE UNCHANGED movieCalls
  /\ UNCHANGED <<movieOpen, movieShowtimes, movieLoading, movieSet, movieConsole>>
  /\ UNCHANGED <<bookings, now, principal, seatVars, clickBudget, users, checkInVars,
                 sessionVars, location, platformVars, profileVars, probeVars>>

\* movies.list answers fetchMovieDetails
MovieFetched(i, ok) ==
  /\ i \in 1..Len(movieCalls)
  /\ movieCalls[i].kind = "movie"
  /\ movieCalls' = RemoveAt(movieCalls, i)
  /\ IF ok
     THEN /\ movieSet' = (movieSet \/ Len(ListById(MoviesTable, "m1")) > 0)
          /\ UNCHANGED movieConsole
     ELSE /\ movieConsole' = "Error fetching movie details:"
          /\ UNCHANGED movieSet
  /\ UNCHANGED <<movieOpen, selectedDate, movieShowtimes, movieLoading, dateBudget>>
  /\ UNCHANGED <<bookings, now, principal, seatVars, clickBudget, users, checkInVars,
                 sessionVars, location, platformVars, profileVars, probeVars>>

\* showtimes.list answers fetchShowtimes; the lookups of theaters and screens
\* start, or with no showtime found setShowtimes([]) and the finally follow
ShowtimesListed(i, ok) ==
  /\ i \in 1..Len(movieCalls)
  /\ movieCalls[i].kind = "list"
  /\ LET found == ListMovieShowtimes(DatedShowtimes, "m1", movieCalls[i].date)
     IN IF ~ok
        THEN /\ movieCalls' = RemoveAt(movieCalls, i)
             /\ movieConsole' = "Error fetching showtimes:"
             /\ movieLoading' = FALSE
             /\ UNCHANGED movieShowtimes
        ELSE IF found = <<>>
        THEN /\ movieCalls' = RemoveAt(movieCalls, i)
             /\ movieShowtimes' = <<>>
             /\ movieLoading' = FALSE
             /\ UNCHANGED movieConsole
        ELSE /\ movieCalls' = [movieCalls EXCEPT
                  ![i] = [kind |-> "enrich", date |-> @.date, rows |-> found]]
             /\ UNCHANGED <<movieShowtimes, movieLoading, movieConsole>>
  /\ UNCHANGED <<movieOpen, selectedDate, movieSet, dateBudget>>
  /\ UNCHANGED <<bookings, now, principal, seatVars, clickBudget, users, checkInVars,
                 sessionVars, location, platformVars, profileVars, probeVars>>

\* the Promise.all of the enrichment answers: setShowtimes, then the finally
ShowtimesEnriched(i, ok) ==
  /\ i \in 1..Len(movieCalls)
  /\ movieCalls[i].kind = "enrich"
  /\ movieCalls' = RemoveAt(movieCalls, i)
  /\ IF ok
     THEN /\ movieShowtimes' = EnrichShowtimes(movieCalls[i].rows)
          /\ UNCHANGED movieConsole
     ELSE /\ movieConsole' = "Error fetching showtimes:"
          /\ UNCHANGED movieShowtimes
  /\ movieLoading' = FALSE
  /\ UNCHANGED <<movieOpen, selectedDate, movieSet, dateBudget>>
  /\ UNCHANGED <<bookings, now, principal, seatVars, clickBudget, users, checkInVars,
                 sessionVars, location, platformVars, profileVars, probeVars>>

\* The page of movie m1: opened on today's date, dates clicked while earlier
\* requests are still in flight.
InitMovieDetails ==
  /\ bookings = <<>>
  /\ now = 0
  /\ principal = [v \in Views |-> IF v = "v1" THEN "u1" ELSE "u2"]
  /\ InitSeat
  /\ route = [v \in Views |-> "closed"]
  /\ users = UsersSeed
  /\ InitCheckIn
  /\ revision = "part_000"
  /\ InitApp
  /\ location = "/"
  /\ InitPlatform
  /\ InitProfile
  /\ InitProbe
  /\ movieOpen = FALSE
  /\ selectedDate = Today
  /\ movieShowtimes = <<>>
  /\ movieLoading = TRUE
  /\ movieSet = FALSE
  /\ movieConsole = "none"
  /\ movieCalls = <<>>
  /\ dateBudget = MaxDateClicks

NextMovieDetails ==
  \/ MountMovieDetails
  \/ \E date \in Dates : SetSelectedDate(date)
  \/ \E i \in 1..MaxMovieCalls, ok \in BOOLEAN : MovieFetched(i, ok)
  \/ \E i \in 1..MaxMovieCalls, ok \in BOOLEAN : ShowtimesListed(i, ok)
  \/ \E i \in 1..MaxMovieCalls, ok \in BOOLEAN : ShowtimesEnriched(i, ok)

SpecMovieDetails == InitMovieDetails /\ [][NextMovieDetails]_vars

\* The venue in operation: a check-in console scanning the code of a confirmed
\* booking, again and overlapping, and reset; a customer with a seat selected
\* submitting it; the signed-in user saving the profile form; a platform owner
\* approving theaters. The update of a scan may fail; every other gateway call
\* succeeds.
InitVenue ==
  /\ bookings = <<SeedBooking(-1, "st1", "confirmed", SeedSeats, FALSE)>>
  /\ now = 0
  /\ principal = [v \in Views |-> IF v = "v1" THEN "u1" ELSE "u2"]
  /\ route = [v \in Views |-> IF v = "v1" THEN "book" ELSE "closed"]
  /\ showtimeId = [v \in Views |-> IF v = "v1" THEN "st4" ELSE "none"]
  /\ pc = [v \in Views |-> IF v = "v1" THEN "done" ELSE "idle"]
  /\ showtime = [v \in Views |-> IF v = "v1" THEN ListById(ShowtimesTable, "st4") ELSE Null]
  /\ movie = [v \in Views |-> IF v = "v1" THEN ListById(MoviesTable, "m1") ELSE Null]
  /\ theater = [v \in Views |-> IF v = "v1" THEN ListById(TheatersTable, "t1") ELSE Null]
  /\ screen = [v \in Views |-> IF v = "v1" THEN ListById(ScreensTable, "sc3") ELSE Null]
  /\ seatLayout = [v \in Views |-> IF v = "v1" THEN Some(Layout2) ELSE Null]
  /\ selectedSeats = [v \in Views |-> IF v = "v1" THEN <<SeatId(1, 2)>> ELSE <<>>]
  /\ occupiedSeats = [v \in Views |-> <<>>]
  /\ loading = [v \in Views |-> v # "v1"]
  /\ toast = [v \in Views |-> "none"]
  /\ console = [v \in Views |-> "none"]
  /\ pending = [v \in Views |-> <<>>]
  /\ clickBudget = -1
  /\ users = UsersSeed
  /\ InitCheckIn
  /\ revision = "App.tsx"
  /\ authUser = Some([id |-> "u2", email |-> <<"bo", "example.org">>, displayName |-> ""])
  /\ user = Some(UsersSeed[1])
  /\ appLoading = FALSE
  /\ appConsole = "none"
  /\ boots = <<>>
  /\ location = "/profile"
  /\ theaterRows = TheatersSeed
  /\ pendingTheaters = [d \in Dashboards |->
                          IF d = "d2" THEN ListPendingTheaters(TheatersSeed) ELSE <<>>]
  /\ dashOpen = [d \in Dashboards |-> d = "d2"]
  /\ dashCalls = <<>>
  /\ dashConsole = [d \in Dashboards |-> "none"]
  /\ dashLast = Null
  /\ decisionBudget = 1
  /\ formData = [name |-> "Bob", phone |-> ""]
  /\ updating = FALSE
  /\ profileCalls = <<>>
  /\ profileToast = "none"
  /\ profileBudget = 1
  /\ profileOpen = Some(UsersSeed[1])
  /\ InitProbe
  /\ InitMovie

NextVenue ==
  \/ SetQrCode("k1", Typed(CodeA, FALSE))
  \/ handleQRScan("k1")
  \/ \E s \in Slots : ScanLookup(s, TRUE)
  \/ \E s \in Slots : ScanShowtime(s, TRUE)
  \/ \E s \in Slots : ScanMovie(s, TRUE)
  \/ \E s \in Slots, ok \in BOOLEAN : ScanUpdate(s, ok)
  \/ handleReset("k1")
  \/ handleProceedToPayment("v1")
  \/ \E i \in 1..MaxPending : ProceedAuthMe("v1", i, TRUE)
  \/ \E i \in 1..MaxPending : ProceedCreate("v1", i, TRUE)
  \/ handleUpdateProfile
  \/ \E i \in 1..Len(profileCalls) : ProfileUpdate(i, TRUE)
  \/ handleTheaterApproval("d2", "t1", "approved")
  \/ \E i \in 1..Len(dashCalls) : ApprovalUpdate(i, TRUE)
  \/ \E i \in 1..Len(dashCalls) : FetchPending(i, TRUE)

SpecVenue == InitVenue /\ [][NextVenue]_vars

\* ------------------------------------------------------------------ claims
SeatSetOf(b) == IF b.seats.kind = "json" THEN Range(b.seats.val) ELSE {}
CreatedByView(b) == b.id[2] >= 0
BookingIndexes == 1..Len(bookings)

\* C1: each seat identifier is in the seat list of at most one confirmed
\* booking of a showtime, whatever the interleaving of two users' loads,
\* clicks and submissions.
C1_SeatClaimedOnce ==
  \A i, j \in BookingIndexes :
    (i < j /\ bookings[i].showtime_id = bookings[j].showtime_id
       /\ bookings[i].booking_status = "confirmed"
       /\ bookings[j].booking_status = "confirmed")
    => SeatSetOf(bookings[i]) \cap SeatSetOf(bookings[j]) = {}

\* The seats of the confirmed bookings of showtime sid.
ConfirmedSeatSet(sid) ==
  UNION {SeatSetOf(bookings[i]) :
           i \in {j \in BookingIndexes : bookings[j].showtime_id = sid
                                          /\ bookings[j].booking_status = "confirmed"}}

ResolvedClass(layout, row) ==
  IF row \in Range(layout.premium) THEN "premium"
  ELSE IF row \in Range(layout.gold) THEN "gold" ELSE "regular"
SeatsOfClass(layout, seats, class) ==
  Cardinality({i \in 1..Len(seats) : ResolvedClass(layout, RowOf(seats[i])) = class})
ExpectedTotal(st, layout, seats) ==
  SeatsOfClass(layout, seats, "premium") * st.price_platinum
  + SeatsOfClass(layout, seats, "gold") * st.price_gold
  + SeatsOfClass(layout, seats, "regular") * st.price_regular
LayoutOfShowtime(sid) ==
  ListById(ScreensTable, ListById(ShowtimesTable, sid)[1].screen_id)[1].seat_layout[1]

\* C5: the total shown for the selection, the total of every create request
\* in flight and the total_amount of every booking a view wrote equal the sum
\* over the seats of the price of the seat's class: premium at price_platinum,
\* gold at price_gold, regular at price_regular.
C5_TotalIsSumOfClassPrices ==
  /\ \A v \in Views :
       Rendered(v) =>
         /\ calculateTotal(showtime[v], seatLayout[v], selectedSeats[v])
              = ExpectedTotal(showtime[v][1], seatLayout[v][1], selectedSeats[v])
         /\ \A i \in 1..Len(pending[v]) :
              pending[v][i].stage = "create" =>
                pending[v][i].rec[1].total_amount
                  = ExpectedTotal(showtime[v][1], seatLayout[v][1], pending[v][i].seats)
  /\ \A i \in BookingIndexes :
       CreatedByView(bookings[i]) =>
         bookings[i].total_amount
           = ExpectedTotal(ListById(ShowtimesTable, bookings[i].showtime_id)[1],
                           LayoutOfShowtime(bookings[i].showtime_id),
                           bookings[i].seats.val)

C5_Witness ==
  \E i \in BookingIndexes :
    /\ CreatedByView(bookings[i])
    /\ bookings[i].showtime_id = "st1"
    /\ bookings[i].seats.val = <<SeatId(3, 1), SeatId(1, 1), SeatId(2, 1)>>
    /\ bookings[i].total_amount = 21

\* C6: the selection never holds more than 10 seats, and with 10 seats
\* selected a click adds nothing: the selection stays as it is or loses the
\* one seat clicked.
C6_AtMostTenSeats ==
  /\ [](\A v \in Views : Len(selectedSeats[v]) <= 10)
  /\ [][\A v \in Views :
          Len(selectedSeats[v]) = 10 =>
            \/ selectedSeats'[v] = selectedSeats[v]
            \/ \E i \in 1..10 : selectedSeats'[v] = RemoveAt(selectedSeats[v], i)]_vars

C6_Witness ==
  \E v \in Views :
    /\ Len(selectedSeats[v]) = 10
    /\ toast[v] = "Limit Reached"
    /\ occupiedSeats[v] = <<>>
    /\ clickBudget < MaxClicks

\* C7: handleProceedToPayment with no seat selected issues no bookings.create
\* call, adds no booking and does not leave the seat map: no call in flight and
\* no booking written by a view carries an empty seat list.
C7_EmptySelectionBlocked ==
  /\ \A v \in Views : \A i \in 1..Len(pending[v]) : pending[v][i].seats # <<>>
  /\ \A i \in BookingIndexes :
       CreatedByView(bookings[i]) => bookings[i].seats.val # <<>>

C7_Witness ==
  \E v \in Views :
    /\ toast[v] = "No Seats Selected"
    /\ selectedSeats[v] = <<>>
    /\ pending[v] = <<>>
    /\ route[v] = "book"
    /\ \A i \in BookingIndexes : ~CreatedByView(bookings[i])


\* C2: a check-in code is consumed once: of the attempts made with one code,
\* from one console or from several, at most one ends with success.
C2_CodeConsumedOnce ==
  \A i, j \in 1..Len(successes) : i # j => successes[i] # successes[j]

RowsWithCode(code) == {i \in BookingIndexes : bookings[i].qr_code = code}
Ends(s) == scan[s].pc # "free" /\ scan'[s].pc = "free"
ResultAfter(s) == checkInResult'[scan[s].console][1]

\* C3: sequential check-in.  The first scan of the code of a confirmed booking
\* that is not checked in, with no other scan of the code overlapping it, ends
\* with success and the checked-in flag set (its gateway calls answering; a
\* failing call ends it with the try-again message).  A scan that starts when
\* the booking is checked in ends with 'already used' (or try-again when its
\* lookup fails) and never updates a booking.
C3_SequentialCheckIn ==
  [][\A s \in Slots :
       Ends(s) =>
         /\ scan[s].fresh =>
              \/ ResultAfter(s).message = TryAgainMessage
              \/ /\ ResultAfter(s).success
                 /\ \A i \in RowsWithCode(scan[s].code) :
                      bookings'[i].checked_in /\ bookings'[i].check_in_time # Null
         /\ scan[s].late =>
              /\ bookings' = bookings
              /\ ~ResultAfter(s).success
              /\ ResultAfter(s).message \in {AlreadyUsedMessage, TryAgainMessage}]_vars

C3_Witness ==
  /\ successes = <<<<"booking", -1>>>>
  /\ lastEnded.late /\ lastEnded.code = CodeA
  /\ bookings[1].checked_in
  /\ trim(qrCode["k1"]).core = CodeA
  /\ checkInResult["k1"] = Failure(AlreadyUsedMessage)
  /\ \A s \in Slots : ~InFlight(s)

\* C9: an attempt with the code of a booking that is not checked in and is
\* cancelled or refunded ends with 'not confirmed' as soon as its lookup
\* answers (try-again when the lookup fails) and changes no booking.
C9_UnconfirmedRejected ==
  [][\A s \in Slots :
       (scan[s].pc # "free" /\ scan'[s].pc # scan[s].pc
          /\ \E i \in RowsWithCode(scan[s].code) :
               ~bookings[i].checked_in /\ bookings[i].booking_status # "confirmed")
       => /\ scan'[s].pc = "free"
          /\ bookings' = bookings
          /\ ~ResultAfter(s).success
          /\ ResultAfter(s).message \in {NotConfirmedMessage, TryAgainMessage}]_vars

C9_Witness ==
  /\ checkInResult["k1"] = Failure(NotConfirmedMessage)
  /\ lastEnded.code = CodeB
  /\ trim(qrCode["k1"]).core = CodeB
  /\ bookings[2].booking_status = "cancelled"
  /\ ~bookings[2].checked_in /\ bookings[2].check_in_time = Null
  /\ \A s \in Slots : ~InFlight(s)

\* C10: an attempt with a code that no booking carries ends with 'not found'
\* as soon as its lookup answers (try-again when the lookup fails): no later
\* lookup, no update, no booking changed.
C10_UnknownCodeNotFound ==
  /\ [](\A s \in Slots :
          scan[s].pc \in {"showtime", "movie", "update"}
            => RowsWithCode(scan[s].code) # {})
  /\ [][\A s \in Slots :
          (scan[s].pc # "free" /\ scan'[s].pc # scan[s].pc
             /\ RowsWithCode(scan[s].code) = {})
          => /\ scan'[s].pc = "free"
             /\ bookings' = bookings
             /\ ~ResultAfter(s).success
             /\ ResultAfter(s).message \in {NotFoundMessage, TryAgainMessage}]_vars

C10_Witness ==
  /\ checkInResult["k1"] = Failure(NotFoundMessage)
  /\ lastEnded.code = CodeUnknown
  /\ trim(qrCode["k1"]).core = CodeUnknown
  /\ successes = <<>>
  /\ \A s \in Slots : ~InFlight(s)


\* C8: the session bootstrap keeps one users record per identity, whatever
\* the auth-state events and however their lookups overlap: no two records
\* share an id, and every record the bootstrap creates has role 'customer'.
C8_OneRecordPerIdentity ==
  /\ \A i, j \in 1..Len(users) : i # j => users[i].id # users[j].id
  /\ \A i \in 1..Len(users) : i > Len(UsersSeed) => users[i].role = "customer"

\* C11: once handleTheaterApproval(t, 'approved') of a dashboard has succeeded,
\* that dashboard's pendingTheaters eventually excludes t.
ApprovedBy(d, t) ==
  /\ ~IsNull(dashLast)
  /\ dashLast[1].ok
  /\ dashLast[1].call = UpdateCall(d, t, "approved")

C11_EventuallyExcluded ==
  \A d \in Dashboards, t \in TheaterIds(TheatersSeed) :
    ApprovedBy(d, t) ~> (t \notin TheaterIds(pendingTheaters[d]))

\* C11, with the refresh taken into account: the update that succeeds leaves t
\* approved and starts a refresh; every refresh that is answered with a list
\* sets pendingTheaters to the theaters then pending, so without t; and after
\* the approval the dashboard comes to exclude t or to a refresh that failed.
RefreshFailed(d, t) ==
  /\ ~IsNull(dashLast)
  /\ ~dashLast[1].ok
  /\ dashLast[1].call = ListCall(d, Some(t))

StatusIn(table, t) ==
  LET k == CHOOSE i \in 1..Len(table) : table[i].id = t
  IN table[k].status
StatusOf(t) == StatusIn(theaterRows, t)

C11_ExcludedOnNextFetch ==
  /\ [][dashLast' # dashLast =>
          LET a == dashLast'[1]
          IN /\ (a.ok /\ a.call.kind = "update" /\ a.call.status = "approved") =>
                  /\ StatusIn(theaterRows', a.call.theaterId) = "approved"
                  /\ \E i \in 1..Len(dashCalls') :
                       dashCalls'[i] = ListCall(a.call.dash, Some(a.call.theaterId))
             /\ (a.ok /\ a.call.kind = "list") =>
                  /\ TheaterIds(pendingTheaters'[a.call.dash])
                       = {t \in TheaterIds(theaterRows') :
                            StatusIn(theaterRows', t) = "pending"}
                  /\ ~IsNull(a.call.after) =>
                       a.call.after[1] \notin TheaterIds(pendingTheaters'[a.call.dash])
     ]_vars
  /\ \A d \in Dashboards, t \in TheaterIds(TheatersSeed) :
       ApprovedBy(d, t) ~> (t \notin TheaterIds(pendingTheaters[d]) \/ RefreshFailed(d, t))

\* a refresh that followed the approval of t has set the list, without t, while
\* another theater is still pending
C11_Witness ==
  /\ ~IsNull(dashLast)
  /\ dashLast[1].ok
  /\ dashLast[1].call = ListCall("d1", Some("t1"))
  /\ StatusOf("t1") = "approved"
  /\ TheaterIds(pendingTheaters["d1"]) = {"t2"}

\* C12: getSeatType resolves a row by a fixed priority: premium if the row is
\* in the premium list, otherwise gold if it is in the gold list, otherwise
\* regular; when the three lists partition the rows of the screen, each row
\* resolves to the class of the one list that contains it.
RowsOfClass(layout, class) ==
  CASE class = "premium" -> Range(layout.premium)
    [] class = "gold" -> Range(layout.gold)
    [] OTHER -> Range(layout.regular)

Partitions(layout) ==
  /\ RowsOfClass(layout, "premium") \cap RowsOfClass(layout, "gold") = {}
  /\ RowsOfClass(layout, "premium") \cap RowsOfClass(layout, "regular") = {}
  /\ RowsOfClass(layout, "gold") \cap RowsOfClass(layout, "regular") = {}
  /\ RowsOfClass(layout, "premium") \cup RowsOfClass(layout, "gold")
       \cup RowsOfClass(layout, "regular") = 1..layout.rows

C12_SeatTypePriority ==
  probeOut # "none" =>
    IF IsNull(probeLayout) THEN probeOut = "regular"
    ELSE LET l == probeLayout[1]
             inPremium == probeRow \in RowsOfClass(l, "premium")
             inGold == probeRow \in RowsOfClass(l, "gold")
         IN /\ inPremium => probeOut = "premium"
            /\ (~inPremium /\ inGold) => probeOut = "gold"
            /\ (~inPremium /\ ~inGold) => probeOut = "regular"
            /\ (Partitions(l) /\ probeRow \in 1..l.rows) =>
                 \A class \in {"premium", "gold", "regular"} :
                   probeRow \in RowsOfClass(l, class) => probeOut = class

\* a row listed as premium and as gold has resolved to premium
C12_Witness ==
  /\ ~IsNull(probeLayout)
  /\ probeRow \in RowsOfClass(probeLayout[1], "premium")
  /\ probeRow \in RowsOfClass(probeLayout[1], "gold")
  /\ probeOut = "premium"

\* C13: the theater dashboard is rendered only while the session user's role
\* is theater_admin and the platform dashboard only while it is platform_owner;
\* the Navbar links to a dashboard only for that role.
C13_DashboardsRoleGated ==
  /\ Page = "TheaterDashboard" => (~IsNull(user) /\ user[1].role = "theater_admin")
  /\ Page = "PlatformDashboard" => (~IsNull(user) /\ user[1].role = "platform_owner")
  /\ RouterShown =>
       /\ Includes(getRoleBasedNavItems(user[1]), "/theater-dashboard")
            => user[1].role = "theater_admin"
       /\ Includes(getRoleBasedNavItems(user[1]), "/platform-dashboard")
            => user[1].role = "platform_owner"

\* a customer at the address of the platform dashboard is shown no view
C13_Witness ==
  /\ location = "/platform-dashboard"
  /\ ~appLoading
  /\ ~IsNull(user)
  /\ user[1].role = "customer"
  /\ Page = "none"

\* C14: App renders a page, and the page starts a handler with its gateway
\* calls, only while loading is false and the session user is a users record.
GateOpen ==
  /\ ~appLoading
  /\ ~IsNull(user)
  /\ \E i \in 1..Len(users) : users[i].id = user[1].id

PageViews == {"HomePage", "MovieDetails", "SeatSelection", "BookingConfirmation",
              "UserProfile", "TheaterDashboard", "PlatformDashboard",
              "CheckInInterface"}

C15_IdentifiersUnique ==
  \A i, j \in BookingIndexes :
    (i # j /\ CreatedByView(bookings[i]) /\ CreatedByView(bookings[j])) =>
      /\ bookings[i].id # bookings[j].id
      /\ bookings[i].qr_code # bookings[j].qr_code

\* C20: no operation changes the role of an existing users record:
\* handleUpdateProfile writes only name and phone, and fetchUserDetails writes
\* a role only in the record it creates, always 'customer'.
C20_RoleNotSelfService ==
  [][/\ Len(users') >= Len(users)
     /\ \A i \in 1..Len(users) :
          /\ users'[i].id = users[i].id
          /\ users'[i].role = users[i].role
          /\ \A f \in (DOMAIN users[i]) \ {"name", "phone"} :
               f \in DOMAIN users'[i] /\ users'[i][f] = users[i][f]
          /\ (DOMAIN users'[i]) \ (DOMAIN users[i]) \subseteq {"phone"}
     /\ \A i \in (Len(users) + 1)..Len(users') : users'[i].role = "customer"
    ]_vars

\* the customer the bootstrap created has saved a new name and is a customer
\* still, beside a theater admin nothing has touched
C20_Witness ==
  /\ profileToast = "Profile Updated"
  /\ \E i \in 1..Len(users) :
       /\ users[i].id = "u1"
       /\ users[i].role = "customer"
       /\ users[i].name = "Bob"
       /\ "phone" \in DOMAIN users[i]
  /\ \E i \in 1..Len(users) : users[i] = StaffSeed[1]

\* C16: a checked-in flag that is set stays set: whatever operation follows
\* (check-in attempts, the reset of the console, bookings, profile updates,
\* theater approvals), the booking is still there and still checked in.
C16_CheckInIrreversible ==
  [][\A i \in 1..Len(bookings) :
       NumberOf(bookings[i].checked_in) > 0 =>
         /\ i <= Len(bookings')
         /\ bookings'[i].id = bookings[i].id
         /\ NumberOf(bookings'[i].checked_in) > 0]_vars

\* the booking checked in is checked in still, after a later scan of its code,
\* a reset, a booking created, a profile saved and a theater approved
C16_Witness ==
  /\ NumberOf(bookings[1].checked_in) > 0
  /\ lastEnded.late
  /\ IsNull(checkInResult["k1"])
  /\ Len(bookings) > 1
  /\ profileToast = "Profile Updated"
  /\ StatusOf("t1") = "approved"


\* the record b carries the constants of handleProceedToPayment, the showtime
\* and the identity of view v, and the seat list seats
PersistedAs(b, v, seats) ==
  /\ b.booking_status = "confirmed"
  /\ b.payment_status = "pending"
  /\ NumberOf(b.checked_in) = 0
  /\ b.showtime_id = showtimeId[v]
  /\ b.user_id = principal[v]
  /\ ~ParseThrows(b.seats)
  /\ JSONparse(b.seats) = seats

\* C17: every booking persisted by handleProceedToPayment is confirmed, its
\* payment pending, not checked in, for the showtime of the view and the
\* current identity, with the seats that were selected when the button was
\* clicked: a submission takes the selection on screen at the click, and the
\* record bookings.create stores is made of that selection.
C17_PersistedFields ==
  [][/\ \A v \in Views :
          Len(pending'[v]) > Len(pending[v]) =>
            pending'[v][Len(pending'[v])].seats = selectedSeats[v]
     /\ Len(bookings') > Len(bookings) =>
          /\ SubSeq(bookings', 1, Len(bookings)) = bookings
          /\ Len(bookings') = Len(bookings) + 1
          /\ \E v \in Views : \E i \in 1..Len(pending[v]) :
               /\ pending[v][i].stage = "create"
               /\ pending'[v] = RemoveAt(pending[v], i)
               /\ PersistedAs(bookings'[Len(bookings')], v, pending[v][i].seats)]_vars

\* a booking stored for view v1 whose seats are those of the click, the
\* selection on screen having changed while the submission was in flight
C17_Witness ==
  /\ route["v1"] = "confirmation"
  /\ Len(bookings) > 0
  /\ LET b == bookings[Len(bookings)]
     IN /\ PersistedAs(b, "v1", JSONparse(b.seats))
        /\ b.id[2] >= 0
        /\ Len(JSONparse(b.seats)) > 0
        /\ JSONparse(b.seats) # selectedSeats["v1"]


\* C18: sign-out clears the session: from an auth-state event with the user
\* absent until a later event with a user present, the session user is null;
\* a lookup started by an earlier event does not put a user back.
C18_SignOutClearsSession ==
  IsNull(authUser) => IsNull(user)


\* C19: when the user lookup, auth.me() or the user creation of
\* fetchUserDetails fails, a session that had no user still has none and the
\* loading indicator is off. The step looked at is the first failure of a
\* session, the one that writes the diagnostic.
C19_FailureStopsLoading ==
  [][(appConsole = "none" /\ appConsole' = "Error fetching user details:") =>
       /\ IsNull(user) => IsNull(user')
       /\ ~appLoading']_vars

\* the same of the revision whose catch calls setLoading(false)
FailureStopsLoadingInPart000 ==
  [][(revision = "part_000" /\ appConsole = "none"
        /\ appConsole' = "Error fetching user details:") =>
       /\ IsNull(user) => IsNull(user')
       /\ ~appLoading']_vars


\* the booking a lookup of the code finds: the first row that carries it
FoundByCode(code) ==
  bookings[CHOOSE i \in RowsWithCode(code) : \A j \in RowsWithCode(code) : i <= j]

\* C21: when the lookup of an attempt answers with a booking, exactly one of
\* three things happens, by the flag first and the status second: a booking
\* checked in gives 'already used' whatever its status; one not checked in and
\* not confirmed gives 'not confirmed'; one not checked in and confirmed lets
\* the attempt go on to the lookups of showtime and user. A lookup that fails
\* gives the try-again message.
C21_OutcomePriority ==
  [][\A s \in Slots :
       (scan[s].pc = "lookup" /\ scan'[s].pc # "lookup"
          /\ RowsWithCode(scan[s].code) # {})
       => LET b == FoundByCode(scan[s].code)
              used == NumberOf(b.checked_in) > 0
              confirmed == b.booking_status = "confirmed"
          IN \/ /\ scan'[s].pc = "free"
                /\ ResultAfter(s) = Failure(TryAgainMessage)[1]
             \/ /\ scan'[s].pc = "free"
                /\ used
                /\ ResultAfter(s) = Failure(AlreadyUsedMessage)[1]
             \/ /\ scan'[s].pc = "free"
                /\ ~used /\ ~confirmed
                /\ ResultAfter(s) = Failure(NotConfirmedMessage)[1]
             \/ /\ scan'[s].pc = "showtime"
                /\ ~used /\ confirmed
                /\ scan'[s].booking = Some(b)
                /\ checkInResult' = checkInResult]_vars

\* the code of a booking refunded after its check-in was presented and the
\* console says 'already used'
C21_Witness ==
  /\ checkInResult["k1"] = Failure(AlreadyUsedMessage)
  /\ lastEnded.code = CodeB
  /\ lastEnded.pc = "lookup"
  /\ bookings[2].booking_status = "refunded"
  /\ NumberOf(bookings[2].checked_in) > 0


\* a gateway call of the attempt in slot s is answered with a failure
GatewayFails(s) ==
  \/ ScanLookup(s, FALSE)
  \/ ScanShowtime(s, FALSE)
  \/ ScanMovie(s, FALSE)
  \/ ScanUpdate(s, FALSE)

\* C22: a gateway call of handleQRScan that fails (the booking lookup, the
\* lookups of showtime and user, those of movie and theater, the update) ends
\* the attempt with success false and the try-again message; and whenever an
\* attempt ends, whatever its outcome, a result is on the console and its
\* loading flag is false.
C22_GatewayFailureHandled ==
  [][\A s \in Slots :
       /\ GatewayFails(s) =>
            /\ Ends(s)
            /\ ResultAfter(s) = Failure(TryAgainMessage)[1]
            /\ ~ResultAfter(s).success
       /\ Ends(s) =>
            /\ ~IsNull(checkInResult'[scan[s].console])
            /\ ~checkInLoading'[scan[s].console]]_vars

\* the update of an attempt failed: try-again on the console, loading off, the
\* booking as it was
C22_Witness ==
  /\ checkInResult["k1"] = Failure(TryAgainMessage)
  /\ lastEnded.pc = "update"
  /\ lastEnded.code = CodeA
  /\ ~checkInLoading["k1"]
  /\ NumberOf(bookings[1].checked_in) = 0
  /\ \A s \in Slots : ~InFlight(s)


\* the load of view v failed at a gateway call: the last diagnostic of the
\* view is one of the two that the load writes
LoadFailed(v) ==
  console[v] \in {"Error fetching showtime details:", "Error fetching occupied seats:"}

\* C23: a seat-map load that failed at a gateway call (the showtime lookup,
\* the lookups of movie, theater and screen, the lookup of the confirmed
\* bookings) leaves the view failed: the seat map is not on screen, so no seat
\* can be selected and nothing submitted.
C23_LoadFailureTerminal ==
  \A v \in Views : LoadFailed(v) => ~Rendered(v)


\* the seats of a stored booking, none when its text is not a JSON array
StoredSeats(b) == IF b.seats.kind = "json" THEN JSONparse(b.seats) ELSE <<>>

\* C24: a booking created from a seat map that finished loading after a
\* confirmed booking B of the same showtime was stored shares no seat with B.
\* The bookings stored before any view is opened carry a negative tag, those a
\* view creates the time of their creation.
C24_SequentialBookingSafe ==
  \A i, j \in 1..Len(bookings) :
    (/\ bookings[i].id[2] < 0
     /\ bookings[i].booking_status = "confirmed"
     /\ bookings[j].id[2] >= 0
     /\ bookings[j].showtime_id = bookings[i].showtime_id)
    => \A m \in 1..Len(StoredSeats(bookings[i])), n \in 1..Len(StoredSeats(bookings[j])) :
         StoredSeats(bookings[i])[m] # StoredSeats(bookings[j])[n]


\* C25: the selection of a view never holds a seat twice nor a seat of the
\* view's occupied list; a click on an occupied seat leaves the selection as
\* it is, and a click on a selected seat takes that seat, and only it, out of
\* the selection.
C25_SelectionInvariant ==
  /\ [](\A v \in Views :
          /\ \A i, j \in 1..Len(selectedSeats[v]) :
               i # j => selectedSeats[v][i] # selectedSeats[v][j]
          /\ \A i \in 1..Len(selectedSeats[v]) :
               ~Includes(occupiedSeats[v], selectedSeats[v][i]))
  /\ [][\A v \in Views, seatId \in SeatIds :
          handleSeatClick(v, seatId) =>
            /\ Includes(occupiedSeats[v], seatId) =>
                 selectedSeats'[v] = selectedSeats[v]
            /\ (~Includes(occupiedSeats[v], seatId) /\ Includes(selectedSeats[v], seatId)) =>
                 /\ Range(selectedSeats'[v]) = Range(selectedSeats[v]) \ {seatId}
                 /\ Len(selectedSeats'[v]) = Len(selectedSeats[v]) - 1]_vars

\* two clicks on a seat map with seats occupied, and one seat selected: one
\* of the clicks was on an occupied seat
C25_Witness ==
  \E v \in Views :
    /\ Rendered(v)
    /\ occupiedSeats[v] = <<SeatId(1, 1), SeatId(2, 1)>>
    /\ clickBudget = MaxClicks - 2
    /\ selectedSeats[v] = <<SeatId(3, 1)>>


\* C26: an attempt that ends with success false has written nothing: the step
\* that ends it leaves every booking, its checked-in flag and its check-in
\* time as they were (the attempt writes at no earlier step).
C26_FailedAttemptWritesNothing ==
  [][\A s \in Slots :
       (Ends(s) /\ ~ResultAfter(s).success) => bookings' = bookings]_vars

\* the same for the attempts that end before the update is requested
FailedBeforeUpdateWritesNothing ==
  [][\A s \in Slots :
       (Ends(s) /\ ~ResultAfter(s).success /\ scan[s].pc # "update")
         => bookings' = bookings]_vars


\* C27: on one console at most one attempt is in flight at a time.
AttemptsAt(k) == {s \in Slots : InFlight(s) /\ scan[s].console = k}

C27_OneAttemptPerConsole ==
  \A k \in Consoles : Cardinality(AttemptsAt(k)) <= 1


\* C28: the status of a theater changes only from pending, and only to
\* approved or rejected: a theater decided is not updated to another status.
C28_DecisionsFinal ==
  [][\A t \in TheaterIds(TheatersSeed) :
       StatusIn(theaterRows', t) # StatusOf(t) =>
         /\ StatusOf(t) = "pending"
         /\ StatusIn(theaterRows', t) \in {"approved", "rejected"}]_vars


\* a submission of view v ends in the catch of handleProceedToPayment
SubmissionFails(v) ==
  /\ Len(pending'[v]) < Len(pending[v])
  /\ toast'[v] = "Booking Failed"

\* C29: when auth.me or bookings.create fails in handleProceedToPayment, no
\* booking is added, the view stays where it is, and the selection is kept:
\* with the seat map on screen the same seats can be submitted again.
C29_CreateFailureKeepsAll ==
  [][\A v \in Views :
       SubmissionFails(v) =>
         /\ bookings' = bookings
         /\ route'[v] = route[v]
         /\ selectedSeats'[v] = selectedSeats[v]
         /\ Rendered(v) => Rendered(v)']_vars

\* bookings.create failed: nothing stored by the view, the seat map on screen
\* with the seats still selected and nothing in flight
C29_Witness ==
  /\ toast["v1"] = "Booking Failed"
  /\ console["v1"] = "Error creating booking:"
  /\ \A i \in 1..Len(bookings) : bookings[i].id[2] < 0
  /\ Rendered("v1")
  /\ Len(selectedSeats["v1"]) > 1
  /\ pending["v1"] = <<>>


\* no fetchShowtimes call of the page is in flight
ShowtimesSettled ==
  \A i \in 1..Len(movieCalls) : movieCalls[i].kind = "movie"

\* C30: once every fetchShowtimes call has settled (none of them having
\* failed), the showtimes of the page are those of the date selected, in
\* whatever order the answers came.
C30_ShowtimesFollowDate ==
  (movieOpen /\ ShowtimesSettled /\ movieConsole = "none")
    => movieShowtimes =
         EnrichShowtimes(ListMovieShowtimes(DatedShowtimes, "m1", selectedDate))

====
